---- MODULE Spec2Model ----
(***************************************************************************)
(* Model of AwardSearchDownload (src/src/awards.py): the per-award         *)
(* download state machine (request -> poll -> fetch) and the batch         *)
(* downloader that drives it over the award index.                         *)
(*                                                                         *)
(* The disk is the only state shared between runs: per award a raw-data    *)
(* folder, the funding table inside it, the downloaded.txt marker and the  *)
(* pending-download json.  The remote service is stateless nondeterminism: *)
(* every network call draws its answer (or the exception it raises) from a *)
(* small set.                                                              *)
(***************************************************************************)
EXTENDS Integers, Sequences, FiniteSets, TLC

\* ---- bounds of the model
MaxTime == 2              \* the clock runs over 1..MaxTime
TicksPerDay == 2          \* ticks of the clock in a day
MaxChunks == 2            \* the award json has at most MaxChunks full chunks and one award
MaxSlow == 2              \* awards per chunk whose download can stay pending
MaxPages == 2             \* the search service has at most MaxPages pages per award type
MaxRows == 2              \* rows in one page of search results
MaxDfRows == 4            \* rows of a funding table given to the normalizer
MaxTotal == 100           \* the totals a comparison line is made of are in 0..MaxTotal
MaxYears == 3             \* the calendar years run over FirstYear..FirstYear + MaxYears

\* ---- program constants
ChunkSize == 10           \* download_awards: chunk_size
Tries == 10               \* download_award_data: tries (default)
PollSleep == 5            \* time.sleep(5) after the request and after a pending poll
Cooldown == 300           \* time.sleep(60*5) after a transient failure
Epoch == 0                \* datetime(1970, 1, 1)
PageSleep == 1            \* time.sleep(1) between two pages of a search
FinalPeriod == 12         \* _check_class_codes: f"FY{fy}P12"
MantissaBits == 53        \* _make_tabbed_line: diff / pa * 100 is float arithmetic
FirstYear == 2017         \* fiscal_year_range: range(2017, datetime.now().year + 1)
Overwrite == FALSE        \* download_award_data: overwrite (default, the batch never sets it)

\* ---- absent values
NoCutoff == -1            \* critical_download_date is None
NoMarker == -1            \* downloaded.txt does not exist
NoTable == -1             \* no *FederalAccountFunding_1.csv in the raw folder
NoRec == {"no pending file"}
NoResp == {"no response"}  \* no download-job request was answered

\* the award identifiers, in the order sort_keys gives them in the award json
AwardIds == <<"a1", "a2">>
Entities == {AwardIds[k] : k \in DOMAIN AwardIds}
Times == 0..MaxTime

\* bodies of the answer to the download-job request (the keys of the json object)
Responses == {{"status_url", "file_url"}, {"status_url"}, {"file_url"}, {"detail"}, {}}
\* status_dict.get("status", "unknown")
Statuses == {"finished", "running", "ready", "failed", "unknown"}
\* exceptions a network call can raise, by the class the batch handler puts them in
Excs == {"transient", "error", "interrupt"}

VARIABLES
    index,            \* the keys of the award json, in file order
    folder,           \* folder[e]: "absent" | "partial" | "complete"
    table,            \* table[e]: max award_latest_action_date of the funding table, or NoTable
    marker,           \* marker[e]: content of downloaded.txt, or NoMarker
    pending,          \* pending[e]: keys of the pending json, or NoRec
    now,              \* datetime.now()
    cutoff,           \* self.critical_download_date
    stopOnErrors,     \* download_awards: stop_on_errors
    pc,               \* "idle" | "chunks" | "sweep" | "for" | "poll" | "cooldown"
    j0,               \* download_awards: j0
    pendingList,      \* download_awards_chunk: pending_list
    newPendingList,   \* download_awards_chunk: new_pending_list
    i,                \* download_awards_chunk: position in the for loop
    attempt,          \* download_award_data: attempt
    outcome,          \* how the last download_awards call ended ("running": it has not)
    rerun,            \* this download_awards call has no cutoff and the call before it
                      \* returned normally
    runLog,           \* runLog[e]: the most recent drive of e in this run returned
                      \* "pending", or its request was "rejected" ("none": neither)
    last,             \* what the last step did (see NoEvent)
    files,            \* the derived artifacts that exist in the summary folder (file names)
    awardRows,        \* the award json: awardRows[e] is the row stored under e, or NoRow
    timeDict,         \* downloaded.json of the summary folder (see NoTimeFile)
    spc,              \* search_awards: "idle" | "post" | "sleep" | "write"
    awardType,        \* search_awards: position of award_type in award_types
    page,             \* _search_award_type: page
    typeOut,          \* _search_award_type: out
    out,              \* search_awards: out
    latest,           \* latest[e]: the row of e in the latest response of this build
                      \* that had one, or NoRow
    sLast,            \* what the last step of a summary operation did (see NoStep)
    drives,           \* the awards download_award_data was called for in this call of
                      \* download_awards, in the order of their first call
    funded,           \* funded[e]: the funding table of award e has a row of tas_code
    combined,         \* the rows of the combined FederalAccountFunding csv
    report,           \* the summary check file: <<>> (none) or <<the rows it was made from>>
    arg,              \* the arguments of the function under check
    ret               \* <<>> (it was not called) or <<what it returned>>

disk == <<folder, table, marker, pending>>
proc == <<cutoff, stopOnErrors, pc, j0, pendingList, newPendingList, i, attempt, outcome>>
hist == <<rerun, runLog, last>>
summary == <<files, awardRows, timeDict>>
search == <<spc, awardType, page, typeOut, out, latest, sLast>>
derived == <<funded, combined, report>>
pure == <<arg, ret>>
aux == <<summary, search, drives, derived, pure, pure>>
vars == <<index, disk, now, proc, hist, aux>>

\* what a step did:
\*   step    the branch taken: "skip" (entry guard), "resume" (pending file found),
\*           "request", "malformed", "poll", "cooldown", or "none" (loop heads)
\*   net     the network calls made, in order
\*   sleep   seconds slept
\*   res     how download_award_data ended in this step: "pending" | "notpending"
\*           (returned), "transient" | "error" | "interrupt" (raised), "none" (it did not end)
\*   resp    the body that answered the download-job request
\*   status  the status a poll reported
NoEvent ==
    [step |-> "none", net |-> <<>>, sleep |-> 0, res |-> "none",
     resp |-> NoResp, status |-> "none"]

\* the end of the list taken for the end of the chunk
Min_first(a, b) == a

Min(a, b) == IF a < b THEN a ELSE b

\* AwardIds restricted to the identifiers in S, order kept
RECURSIVE Restrict(_, _)
Restrict(s, S) ==
    IF s = <<>> THEN <<>>
    ELSE IF Head(s) \in S THEN <<Head(s)>> \o Restrict(Tail(s), S)
    ELSE Restrict(Tail(s), S)

\* the award json holds a mapping written with sort_keys: its keys are distinct and sorted
Indexes == {Restrict(AwardIds, S) : S \in SUBSET Entities}

\* ---- downloaded_time -----------------------------------------------------
\* the funding table not looked at
downloaded_time_no_inference(e) == IF marker[e] # NoMarker THEN marker[e] ELSE Epoch

\* the value downloaded_time returns
downloaded_time(e) ==
    IF marker[e] # NoMarker THEN marker[e]
    ELSE IF table[e] # NoTable THEN table[e]
    ELSE Epoch

\* downloaded.txt after downloaded_time returned: an inferred time is written
downloaded_time_marker(e) ==
    IF marker[e] = NoMarker /\ table[e] # NoTable THEN table[e] ELSE marker[e]

\* ---- download_award_data, entry guard --------------------------------------
\* the comparison with the cutoff made strict
EntryGuard_strict(e) ==
    /\ ~Overwrite
    /\ folder[e] # "absent"
    /\ (cutoff = NoCutoff \/ downloaded_time(e) > cutoff)

\* the branch for a missing cutoff forgotten
EntryGuard_cutoff_only(e) ==
    /\ ~Overwrite
    /\ folder[e] # "absent"
    /\ cutoff # NoCutoff
    /\ downloaded_time(e) >= cutoff

\* TRUE when the call returns False before request_download
EntryGuard(e) ==
    /\ ~Overwrite
    /\ folder[e] # "absent"
    /\ (cutoff = NoCutoff \/ downloaded_time(e) >= cutoff)

\* downloaded.txt after the guard was evaluated (it calls downloaded_time only
\* when the folder exists and a cutoff is set)
GuardMarker(e) ==
    IF ~Overwrite /\ folder[e] # "absent" /\ cutoff # NoCutoff
    THEN downloaded_time_marker(e)
    ELSE marker[e]

\* ---- request_download, check_download_status: the tests they make ----------
\* the pending file not looked for
HasPendingFile_never(e) == FALSE

\* request_download: a pending file exists, so no request is made
HasPendingFile(e) == pending[e] # NoRec

\* any body that is not empty taken for an accepted job
Accepted_any(r) == r # {}

\* request_download: the answer carries a status location
Accepted(r) == "status_url" \in r

\* only the status location looked for
WellFormed_status_only(rec) == "status_url" \in rec

\* check_download_status: the pending json has both locations
WellFormed(rec) == "status_url" \in rec /\ "file_url" \in rec

\* check_download_status: the download is ready to be fetched
IsFinished(st) == st = "finished"

\* a queued job taken for a failed one
StillPending_running_only(st) == st = "running"

\* a response without status taken for a running job
StillPending_unknown(st) == st \in {"running", "ready", "unknown"}

\* check_download_status: keep the pending file and ask again
StillPending(st) == st \in {"running", "ready"}

\* the loop bound off by one
LoopAgain_le(a) == a <= Tries

\* download_award_data: the polling loop goes round again after a attempts
LoopAgain(a) == a < Tries

\* ---- download_awards_chunk: what follows a call of download_award_data -----
\* every award is put back, whatever its call returned
Requeue_always(res) == TRUE

\* an award that returned pending is not put back
Requeue_transient_only(res) == res = "transient"

\* the award is appended to new_pending_list: it returned pending, or the
\* exception was a transient one
Requeue(res) == res \in {"pending", "transient"}

\* the flag not looked at: every exception that is not transient is raised again
Reraise_ignore_flag(res) == res \in {"interrupt", "error"}

\* KeyboardInterrupt handled like any other exception
Reraise_as_error(res) == res \in {"interrupt", "error"} /\ stopOnErrors

\* stop_on_errors tested before the message of the exception
Reraise_stop_first(res) == res = "interrupt" \/ (res \in {"error", "transient"} /\ stopOnErrors)

\* the exception is re-raised: KeyboardInterrupt always, another one that is not
\* transient when stop_on_errors
Reraise(res) == res = "interrupt" \/ (res = "error" /\ stopOnErrors)

\* next iteration of the for loop (the while loop head when the list is done)
Continue ==
    /\ i' = i + 1
    /\ pc' = IF i + 1 < Len(pendingList) THEN "for" ELSE "sweep"
    /\ attempt' = 0
    /\ UNCHANGED <<cutoff, stopOnErrors, j0, pendingList, outcome>>

\* download_awards is over (how: "returned" | "raised" | "interrupted"): the process
\* and its locals are gone
Exit(how) ==
    /\ pc' = "idle"
    /\ outcome' = how
    /\ cutoff' = NoCutoff
    /\ stopOnErrors' = TRUE
    /\ j0' = 0
    /\ pendingList' = <<>>
    /\ newPendingList' = <<>>
    /\ i' = 0
    /\ attempt' = 0

\* the entry of runLog for a drive that ended as ev says
LogEntry(ev) ==
    IF ev.res = "pending" THEN "pending"
    ELSE IF ev.step = "request" /\ ev.res = "notpending" THEN "rejected"
    ELSE "none"

\* the body of the for loop after download_award_data(e) returned or raised (res)
AfterCall(e, res) ==
    IF Reraise(res)
    THEN Exit(IF res = "interrupt" THEN "interrupted" ELSE "raised")
    ELSE /\ newPendingList' = IF Requeue(res) THEN Append(newPendingList, e)
                              ELSE newPendingList
         /\ IF res = "transient"
            THEN \* time.sleep(60*5) comes next
                 /\ pc' = "cooldown"
                 /\ attempt' = 0
                 /\ UNCHANGED <<cutoff, stopOnErrors, j0, pendingList, i, outcome>>
            ELSE Continue

\* the same, with what the call did recorded
AfterDrive(e, ev) ==
    /\ last' = ev
    /\ runLog' = [runLog EXCEPT ![e] = LogEntry(ev)]
    /\ rerun' = rerun
    /\ AfterCall(e, ev.res)

\* request_download returned True: sleep 5, then the polling loop
EnterPoll(e, ev) ==
    \/ /\ pc' = "poll"
       /\ attempt' = 0
       /\ last' = [ev EXCEPT !.sleep = PollSleep]
       /\ UNCHANGED <<cutoff, stopOnErrors, j0, pendingList, newPendingList, i, outcome,
                      rerun, runLog>>
    \/ AfterDrive(e, [ev EXCEPT !.res = "interrupt"])   \* KeyboardInterrupt during the sleep

\* ---- _download_files ---------------------------------------------------------
\* how far _download_files and the unlink after it got:
\*   "get"      requests.get or ZipFile raised (also: an archive without members,
\*              extractall creates no folder and opening downloaded.txt raises)
\*   "partial"  extractall stopped before the funding table was written
\*   "funding"  extractall stopped after the funding table, before the last member
\*   "unpacked" extractall finished, downloaded.txt was not written
\*   "stamped"  downloaded.txt written, the pending file not deleted
\*   "done"     the pending file deleted
FetchStages == {"get", "partial", "funding", "unpacked", "stamped", "done"}

\* the exceptions that can end _download_files at a stage ("none": it did not end there)
StageExcs(stage) ==
    CASE stage = "get" -> Excs
      [] stage = "done" -> {"none"}
      [] OTHER -> {"error", "interrupt"}

\* the max award_latest_action_date of the funding table in the archive
\* (NoTable: the archive has no funding table); the latest action is taken to be of
\* the day of the download, so a table dates from before a later cutoff or not
ArchiveTables == {NoTable, now}

\* the raw folder after extractall got as far as stage
Unpacked(was, stage) ==
    IF stage = "get" THEN was
    ELSE IF stage \in {"partial", "funding"} THEN (IF was = "absent" THEN "partial" ELSE was)
    ELSE "complete"

\* downloaded.txt after _download_files got as far as stage
Stamped(was, stage) == IF stage \in {"stamped", "done"} THEN now ELSE was

\* the pending file deleted before the files are fetched
Unlinked_first(was, stage) == NoRec

\* the pending file after check_download_status got as far as stage
Unlinked(was, stage) == IF stage = "done" THEN NoRec ELSE was

\* _download_files followed by pending_file.unlink(), ended at stage with exception x;
\* d is the funding table of the archive
DownloadFiles(e, d, stage, x, ev) ==
    /\ folder' = [folder EXCEPT ![e] = Unpacked(@, stage)]
    /\ table' = [table EXCEPT ![e] = IF stage \in {"get", "partial"} \/ d = NoTable THEN @
                                      ELSE d]
    /\ marker' = [marker EXCEPT ![e] = Stamped(@, stage)]
    /\ pending' = [pending EXCEPT ![e] = Unlinked(@, stage)]
    /\ AfterDrive(e, [ev EXCEPT !.res = IF stage = "done" THEN "notpending" ELSE x])

\* ---- the summary folder: derived artifacts and their timestamps ----------------
\* the derived artifacts, by file name: the award json, the program activity json,
\* the combined FederalAccountFunding csv, the summary check file
ArtifactNames == {"awards", "program_activity", "combined", "summary_check"}

\* contents of a row of the awards table, and the absent row
Vals == {"r1", "r2"}
NoRow == "none"
NoRows == [e \in Entities |-> NoRow]

\* datetime.isoformat(): the date, then the time of the day
Isoformat(t) == <<t \div TicksPerDay, t % TicksPerDay>>

\* datetime.fromisoformat()
FromIsoformat(str) == str[1] * TicksPerDay + str[2]

\* time_dict has no entry for the file
NoEntry == <<>>

\* downloaded.json does not exist
NoTimeFile == [exists |-> FALSE, dict |-> [n \in ArtifactNames |-> NoEntry]]

\* the cutoff tested before the existence of the file
check_overwrite_cutoff_first(name, crit) ==
    IF crit = NoCutoff THEN FALSE
    ELSE IF name \notin files THEN TRUE
    ELSE IF ~timeDict.exists THEN TRUE
    ELSE IF timeDict.dict[name] = NoEntry THEN TRUE
    ELSE ~(FromIsoformat(timeDict.dict[name]) >= crit)

\* a file downloaded at the cutoff taken for stale
check_overwrite_strict(name, crit) ==
    IF name \notin files THEN TRUE
    ELSE IF ~timeDict.exists THEN TRUE
    ELSE IF crit = NoCutoff THEN FALSE
    ELSE IF timeDict.dict[name] = NoEntry THEN TRUE
    ELSE ~(FromIsoformat(timeDict.dict[name]) > crit)

\* check_overwrite(filename) of an object constructed with critical_download_date crit
check_overwrite(name, crit) ==
    IF name \notin files THEN TRUE
    ELSE IF ~timeDict.exists THEN TRUE
    ELSE IF crit = NoCutoff THEN FALSE
    ELSE IF timeDict.dict[name] = NoEntry THEN TRUE
    ELSE ~(FromIsoformat(timeDict.dict[name]) >= crit)

\* the time file started afresh at every export
export_downloaded_time_fresh(name) ==
    [exists |-> TRUE, dict |-> [NoTimeFile.dict EXCEPT ![name] = Isoformat(now)]]

\* downloaded.json after export_downloaded_time(file)
export_downloaded_time(name) ==
    [exists |-> TRUE, dict |-> [timeDict.dict EXCEPT ![name] = Isoformat(now)]]

\* what a step of a summary operation did:
\*   step       "check" (check_overwrite said no: the operation returned), "post" (a
\*              search request), "sleep", "write" (the artifact is written), or "none"
\*   name       the artifact
\*   crit       critical_download_date of the object
\*   overwrite  what check_overwrite returned
\*   req        the search request made: <<position of the award type, page>>
\*   hasNext    page_metadata.hasNext of the response
\*   sleep      seconds slept
\*   res        "returned" | "raised" when the operation ended in this step, else "none"
NoStep ==
    [step |-> "none", name |-> "none", crit |-> NoCutoff, overwrite |-> FALSE,
     req |-> <<>>, hasNext |-> FALSE, sleep |-> 0, res |-> "none"]

\* ---- the state after construction ----------------------------------------
\* no call of download_awards is running
DownloadIdle ==
    /\ cutoff = NoCutoff
    /\ stopOnErrors = TRUE
    /\ pc = "idle"
    /\ j0 = 0
    /\ pendingList = <<>>
    /\ newPendingList = <<>>
    /\ i = 0
    /\ attempt = 0
    /\ outcome = "none"
    /\ rerun = FALSE
    /\ runLog = [e \in Entities |-> "none"]
    /\ last = NoEvent
    /\ drives = <<>>

\* no call of search_awards is running
SearchIdle ==
    /\ spc = "idle"
    /\ awardType = 0
    /\ page = 0
    /\ typeOut = NoRows
    /\ out = NoRows
    /\ latest = NoRows
    /\ sLast = NoStep

\* nothing was combined or compared
NoDerived ==
    /\ funded = [e \in Entities |-> TRUE]
    /\ combined = {}
    /\ report = <<>>
    /\ arg = <<>>
    /\ ret = <<>>

\* nothing was downloaded
EmptyDisk ==
    /\ folder = [e \in Entities |-> "absent"]
    /\ table = [e \in Entities |-> NoTable]
    /\ marker = [e \in Entities |-> NoMarker]
    /\ pending = [e \in Entities |-> NoRec]

\* the batch downloader starts from an award json that a search wrote at time 1
Init ==
    /\ index \in Indexes
    /\ EmptyDisk
    /\ now = 1
    /\ DownloadIdle
    /\ NoDerived
    /\ files = {"awards"}
    /\ awardRows = [e \in Entities |->
                       IF \E k \in DOMAIN index : index[k] = e THEN "r1" ELSE NoRow]
    /\ timeDict = [exists |-> TRUE,
                   dict |-> [NoTimeFile.dict EXCEPT !["awards"] = Isoformat(1)]]
    /\ SearchIdle

\* time passes between two runs
Tick ==
    /\ UNCHANGED aux
    /\ pc = "idle"
    /\ now < MaxTime
    /\ now' = now + 1
    /\ last' = NoEvent
    /\ UNCHANGED <<index, disk, proc, rerun, runLog>>

\* download_awards(soe) of an object with critical_download_date c, up to the loop
Begin(soe, c) ==
    /\ stopOnErrors' = soe
    /\ cutoff' = c
    /\ rerun' = (outcome = "returned" /\ c = NoCutoff)
    /\ j0' = 0
    /\ pc' = "chunks"
    /\ outcome' = "running"
    /\ pendingList' = <<>> /\ newPendingList' = <<>> /\ i' = 0 /\ attempt' = 0
    /\ runLog' = [e \in Entities |-> "none"]
    /\ last' = NoEvent

\* AwardSearchDownload(critical_download_date = c).download_awards(soe)
StartRun ==
    /\ UNCHANGED aux
    /\ pc = "idle"
    /\ \E soe \in BOOLEAN, c \in {NoCutoff} \cup (1..MaxTime) : Begin(soe, c)
    /\ UNCHANGED <<index, disk, now>>

\* every award from j0 on handed to download_awards_chunk
Chunk_rest(awards, from) == SubSeq(awards, from + 1, Len(awards))

\* new_pending_list[j0:min(len(new_pending_list), jf)], jf being j0 + chunk_size
Chunk(awards, from) == SubSeq(awards, from + 1, Min(Len(awards), from + ChunkSize))

\* download_awards: the while loop over the chunks
DownloadAwards ==
    /\ UNCHANGED aux
    /\ pc = "chunks"
    /\ IF j0 <= Len(index)
       THEN /\ newPendingList' = Chunk(index, j0)
            /\ pc' = "sweep"
            /\ UNCHANGED <<cutoff, stopOnErrors, j0, pendingList, i, attempt, outcome>>
       ELSE Exit("returned")
    /\ last' = NoEvent
    /\ UNCHANGED <<index, disk, now, rerun, runLog>>

\* download_awards_chunk: the while loop over the sweeps
DownloadAwardsChunk ==
    /\ UNCHANGED aux
    /\ pc = "sweep"
    /\ IF Len(newPendingList) > 0
       THEN /\ i' = 0
            /\ pendingList' = newPendingList
            /\ newPendingList' = <<>>
            /\ pc' = "for"
            /\ j0' = j0
       ELSE /\ j0' = j0 + ChunkSize
            /\ pc' = "chunks"
            /\ UNCHANGED <<i, pendingList, newPendingList>>
    /\ last' = NoEvent
    /\ UNCHANGED <<index, disk, now, cutoff, stopOnErrors, attempt, outcome, rerun, runLog>>

\* download_awards_chunk: the cooldown after a transient failure
CooldownSleep ==
    /\ UNCHANGED aux
    /\ pc = "cooldown"
    /\ UNCHANGED <<index, disk, now, rerun, runLog>>
    /\ \/ /\ last' = [NoEvent EXCEPT !.step = "cooldown", !.sleep = Cooldown]
          /\ newPendingList' = newPendingList
          /\ Continue
       \/ /\ last' = [NoEvent EXCEPT !.step = "cooldown"]   \* KeyboardInterrupt during the sleep
          /\ Exit("interrupted")

\* download_award_data up to the polling loop: entry guard, request_download, sleep
DownloadAwardData ==
    /\ UNCHANGED aux
    /\ pc = "for"
    /\ LET e == pendingList[i + 1] IN
       /\ marker' = [marker EXCEPT ![e] = GuardMarker(e)]
       /\ UNCHANGED <<index, now, folder, table>>
       /\ IF EntryGuard(e)
          THEN \* already downloaded
               /\ pending' = pending
               /\ AfterDrive(e, [NoEvent EXCEPT !.step = "skip", !.res = "notpending"])
          ELSE IF HasPendingFile(e)
          THEN \* request_download: a pending file exists, no request
               /\ pending' = pending
               /\ EnterPoll(e, [NoEvent EXCEPT !.step = "resume"])
          ELSE \* request_download: POST the download-job request
               LET ev == [NoEvent EXCEPT !.step = "request", !.net = <<"request">>] IN
               \/ \E r \in Responses :
                     IF Accepted(r)
                     THEN /\ pending' = [pending EXCEPT ![e] = r]
                          /\ EnterPoll(e, [ev EXCEPT !.resp = r])
                     ELSE /\ pending' = pending
                          /\ AfterDrive(e, [ev EXCEPT !.resp = r, !.res = "notpending"])
               \/ \E x \in Excs :
                     /\ pending' = pending
                     /\ AfterDrive(e, [ev EXCEPT !.res = x])

\* one iteration of the polling loop of download_award_data: check_download_status,
\* then attempt += 1 and sleep when it is still pending
CheckDownloadStatus ==
    /\ UNCHANGED aux
    /\ pc = "poll"
    /\ LET e == pendingList[i + 1] IN
       /\ UNCHANGED <<index, now>>
       /\ IF ~WellFormed(pending[e])
          THEN \* the pending file is missing information: delete it
               /\ pending' = [pending EXCEPT ![e] = NoRec]
               /\ UNCHANGED <<folder, table, marker>>
               /\ AfterDrive(e, [NoEvent EXCEPT !.step = "malformed", !.res = "notpending"])
          ELSE LET ev == [NoEvent EXCEPT !.step = "poll", !.net = <<"poll">>] IN
               \/ \* the status request raises
                  \E x \in Excs :
                     /\ UNCHANGED disk
                     /\ AfterDrive(e, [ev EXCEPT !.res = x])
               \/ \E st \in Statuses :
                     IF IsFinished(st)
                     THEN \E d \in ArchiveTables, stage \in FetchStages :
                            \E x \in StageExcs(stage) :
                               DownloadFiles(e, d, stage, x,
                                   [ev EXCEPT !.status = st, !.net = <<"poll", "fetch">>])
                     ELSE IF StillPending(st)
                     THEN /\ UNCHANGED disk
                          /\ \/ IF LoopAgain(attempt + 1)
                                THEN /\ attempt' = attempt + 1
                                     /\ last' = [ev EXCEPT !.status = st, !.sleep = PollSleep]
                                     /\ UNCHANGED <<cutoff, stopOnErrors, pc, j0, pendingList,
                                                    newPendingList, i, outcome, rerun, runLog>>
                                ELSE AfterDrive(e, [ev EXCEPT !.status = st, !.sleep = PollSleep,
                                                              !.res = "pending"])
                             \/ \* KeyboardInterrupt during the sleep
                                AfterDrive(e, [ev EXCEPT !.status = st, !.res = "interrupt"])
                     ELSE \* any other status: delete the pending file
                          /\ pending' = [pending EXCEPT ![e] = NoRec]
                          /\ UNCHANGED <<folder, table, marker>>
                          /\ AfterDrive(e, [ev EXCEPT !.status = st, !.res = "notpending"])

Next ==
    \/ Tick
    \/ StartRun
    \/ DownloadAwards
    \/ DownloadAwardsChunk
    \/ DownloadAwardData
    \/ CooldownSleep
    \/ CheckDownloadStatus

Spec == Init /\ [][Next]_vars

\* the batch downloader over an award json of at most one award: what one call of
\* download_award_data does, every other award left out
SingleInit == Init /\ Len(index) <= 1

SpecSingle == SingleInit /\ [][Next]_vars

\* the award the batch is driving
cur == pendingList[i + 1]

TypeOK ==
    /\ index \in Indexes
    /\ folder \in [Entities -> {"absent", "partial", "complete"}]
    /\ table \in [Entities -> {NoTable} \cup Times]
    /\ marker \in [Entities -> {NoMarker} \cup Times]
    /\ \A e \in Entities : pending[e] = NoRec \/ pending[e] \in Responses
    /\ now \in 1..MaxTime
    /\ cutoff \in {NoCutoff} \cup (1..MaxTime)
    /\ pc \in {"idle", "chunks", "sweep", "for", "poll", "cooldown"}
    /\ attempt \in 0..Tries
    /\ runLog \in [Entities -> {"none", "pending", "rejected"}]
    /\ pc \in {"for", "poll", "cooldown"} => i < Len(pendingList)
    /\ pc = "poll" => pending[cur] # NoRec

\* ---- the staleness policy -------------------------------------------------------
\* critical_download_date of the object a summary operation is called on
Cutoffs == {NoCutoff} \cup (1..MaxTime)

\* time passes between two summary operations
SummaryTick ==
    /\ spc = "idle"
    /\ pc = "idle"
    /\ now < MaxTime
    /\ now' = now + 1
    /\ sLast' = NoStep
    /\ UNCHANGED <<index, disk, proc, hist, summary, drives, derived, pure,
                   spc, awardType, page, typeOut, out, latest>>

\* an operation that rebuilds the artifact name when check_overwrite says so: the
\* requests, then the file is written, then export_downloaded_time
Rebuild(name) ==
    /\ spc = "idle"
    /\ pc = "idle"
    /\ UNCHANGED <<index, disk, now, proc, hist, awardRows, drives, derived, pure,
                   spc, awardType, page, typeOut, out, latest>>
    /\ \E crit \in Cutoffs :
          LET ev == [NoStep EXCEPT !.name = name, !.crit = crit,
                                   !.overwrite = check_overwrite(name, crit)] IN
          IF ~ev.overwrite
          THEN /\ sLast' = [ev EXCEPT !.step = "check", !.res = "returned"]
               /\ UNCHANGED <<files, timeDict>>
          ELSE \/ \* a request raises
                  /\ sLast' = [ev EXCEPT !.step = "request", !.res = "raised"]
                  /\ UNCHANGED <<files, timeDict>>
               \/ \* the file is written, then its time
                  /\ sLast' = [ev EXCEPT !.step = "write", !.res = "returned"]
                  /\ files' = files \cup {name}
                  /\ timeDict' = export_downloaded_time(name)
               \/ \* KeyboardInterrupt after the file is written
                  /\ sLast' = [ev EXCEPT !.step = "write", !.res = "raised"]
                  /\ files' = files \cup {name}
                  /\ timeDict' = timeDict

\* download_program_activity
DownloadProgramActivity == Rebuild("program_activity")

\* search_awards, the search finding no award (the award json is written as {})
SearchAwardsNone == Rebuild("awards")

\* the summary folder after create_folders: empty
StaleInit ==
    /\ index = <<>>
    /\ EmptyDisk
    /\ now = 1
    /\ DownloadIdle
    /\ NoDerived
    /\ files = {}
    /\ awardRows = NoRows
    /\ timeDict = NoTimeFile
    /\ SearchIdle

StaleNext ==
    \/ SummaryTick
    \/ DownloadProgramActivity
    \/ SearchAwardsNone

SpecStale == StaleInit /\ [][StaleNext]_vars

\* ---- search_awards -----------------------------------------------------------------
\* AwardSearchDownload.award_types
AwardTypes == <<"CONTRACT", "IDV", "LOAN", "GRANT", "DIRECT_PAYMENTS", "OTHER">>

\* the rows a page of results can hold
Rows == [id : Entities, val : Vals]
PageResults == UNION {[1..n -> Rows] : n \in 0..MaxRows}

\* for row in results: out[row["generated_internal_id"]] = row
RECURSIVE AddRows(_, _)
AddRows(d, results) ==
    IF results = <<>> THEN d
    ELSE AddRows([d EXCEPT ![Head(results).id] = Head(results).val], Tail(results))

\* the rows found before kept
Merge_keep_first(a, b) == [e \in Entities |-> IF a[e] # NoRow THEN a[e] ELSE b[e]]

\* {**a, **b}
Merge(a, b) == [e \in Entities |-> IF b[e] # NoRow THEN b[e] ELSE a[e]]

\* list(award_dict.keys()) of an award json written with sort_keys
Keys(rows) == Restrict(AwardIds, {e \in Entities : rows[e] # NoRow})

\* the loop does not stop at the last page
MorePages_always(hasNext) == TRUE

\* _search_award_type: while has_next
MorePages(hasNext) == hasNext

\* the sleep left out
SleepAfter_never(hasNext) == FALSE

\* _search_award_type: if has_next: time.sleep(1)
SleepAfter(hasNext) == hasNext

\* the locals of search_awards are gone
SearchReturn ==
    /\ spc' = "idle"
    /\ awardType' = 0
    /\ page' = 0
    /\ typeOut' = NoRows
    /\ out' = NoRows
    /\ latest' = NoRows

\* what was found so far is written before the exception goes on
SearchRaised_flush ==
    /\ SearchReturn
    /\ files' = files \cup {"awards"}
    /\ awardRows' = Merge(out, typeOut)
    /\ index' = Keys(Merge(out, typeOut))
    /\ timeDict' = timeDict

\* an exception leaves search_awards: nothing is written
SearchRaised ==
    /\ SearchReturn
    /\ UNCHANGED <<summary, index>>

\* the build goes on from the award json on disk
StartOut_previous(prev) == prev

\* out = {}: what a build starts from, whatever the award json on disk (prev) holds
StartOut(prev) == NoRows

\* search_awards up to the first request: check_overwrite
StartSearch ==
    /\ spc = "idle"
    /\ pc = "idle"
    /\ UNCHANGED <<index, disk, now, proc, hist, summary, drives, derived, pure>>
    /\ \E crit \in Cutoffs :
          LET ev == [NoStep EXCEPT !.step = "check", !.name = "awards", !.crit = crit,
                                   !.overwrite = check_overwrite("awards", crit)] IN
          IF ~ev.overwrite
          THEN /\ sLast' = [ev EXCEPT !.res = "returned"]
               /\ UNCHANGED <<spc, awardType, page, typeOut, out, latest>>
          ELSE /\ sLast' = ev
               /\ spc' = "post"
               /\ awardType' = 1
               /\ page' = 1
               /\ typeOut' = NoRows
               /\ out' = StartOut(awardRows)
               /\ latest' = NoRows

\* one iteration of the loop of _search_award_type, up to the sleep:
\* _search_award_type_page, the rows added to out, page += 1
SearchPage ==
    /\ spc = "post"
    /\ UNCHANGED <<disk, now, proc, hist, drives, derived, pure>>
    /\ LET ev == [NoStep EXCEPT !.step = "post", !.name = "awards",
                                !.req = <<awardType, page>>] IN
       \/ \* the request raises, or raise_for_status does
          /\ sLast' = [ev EXCEPT !.res = "raised"]
          /\ SearchRaised
       \/ \E results \in PageResults, hasNext \in BOOLEAN :
             /\ page < MaxPages \/ ~hasNext
             /\ sLast' = [ev EXCEPT !.hasNext = hasNext]
             /\ latest' = AddRows(latest, results)
             /\ UNCHANGED <<summary, index>>
             /\ IF MorePages(hasNext)
                THEN /\ typeOut' = AddRows(typeOut, results)
                     /\ page' = page + 1
                     /\ spc' = IF SleepAfter(hasNext) THEN "sleep" ELSE "post"
                     /\ UNCHANGED <<awardType, out>>
                ELSE \* _search_award_type returns: out = {**out, **awards}
                     /\ out' = Merge(out, AddRows(typeOut, results))
                     /\ typeOut' = NoRows
                     /\ page' = 1
                     /\ IF awardType < Len(AwardTypes)
                        THEN awardType' = awardType + 1 /\ spc' = "post"
                        ELSE awardType' = awardType /\ spc' = "write"

\* _search_award_type: time.sleep(1) before the next page
SearchSleep ==
    /\ spc = "sleep"
    /\ UNCHANGED <<disk, now, proc, hist, drives, derived, pure>>
    /\ \/ /\ sLast' = [NoStep EXCEPT !.step = "sleep", !.name = "awards", !.sleep = PageSleep]
          /\ spc' = "post"
          /\ UNCHANGED <<index, summary, awardType, page, typeOut, out, latest>>
       \/ \* KeyboardInterrupt during the sleep
          /\ sLast' = [NoStep EXCEPT !.step = "sleep", !.name = "awards", !.res = "raised"]
          /\ SearchRaised

\* search_awards after the last award type: json.dump, export_downloaded_time
WriteIndex ==
    /\ spc = "write"
    /\ UNCHANGED <<disk, now, proc, hist, drives, derived, pure>>
    /\ files' = files \cup {"awards"}
    /\ awardRows' = out
    /\ index' = Keys(out)
    /\ SearchReturn
    /\ \/ /\ sLast' = [NoStep EXCEPT !.step = "write", !.name = "awards", !.res = "returned"]
          /\ timeDict' = export_downloaded_time("awards")
       \/ \* KeyboardInterrupt after the file is written
          /\ sLast' = [NoStep EXCEPT !.step = "write", !.name = "awards", !.res = "raised"]
          /\ timeDict' = timeDict

SearchNext ==
    \/ SummaryTick
    \/ StartSearch
    \/ SearchPage
    \/ SearchSleep
    \/ WriteIndex

SpecSearch == StaleInit /\ [][SearchNext]_vars

\* ---- download_awards over an award json of several chunks --------------------------
\* The awards are numbered in the order of the award json; download_award_data is
\* taken by how it ends.
ChunkIndexes == {[k \in 1..n |-> k] : n \in 0..(MaxChunks * ChunkSize + 1)}

\* the first MaxSlow awards of a chunk can stay pending or fail transiently
Slow(e) == (e - 1) % ChunkSize < MaxSlow

\* how a call of download_award_data(e) can end
CallResults(e) ==
    {"notpending", "error", "interrupt"}
        \cup (IF Slow(e) THEN {"pending", "transient"} ELSE {})

ChunkInit ==
    /\ index \in ChunkIndexes
    /\ EmptyDisk
    /\ now = 1
    /\ DownloadIdle
    /\ NoDerived
    /\ files = {"awards"}
    /\ awardRows = NoRows
    /\ timeDict = NoTimeFile
    /\ SearchIdle

\* download_awards(soe) up to the while loop
StartDownload ==
    /\ pc = "idle"
    /\ outcome = "none"
    /\ \E soe \in BOOLEAN : stopOnErrors' = soe
    /\ pc' = "chunks"
    /\ outcome' = "running"
    /\ j0' = 0
    /\ drives' = <<>>
    /\ last' = NoEvent
    /\ UNCHANGED <<index, disk, now, cutoff, pendingList, newPendingList, i, attempt,
                   rerun, runLog, summary, search, derived, pure>>

\* download_awards_chunk: one iteration of the for loop
DriveAward ==
    /\ pc = "for"
    /\ LET e == pendingList[i + 1] IN
       \E res \in CallResults(e) :
          /\ last' = [NoEvent EXCEPT !.step = "call", !.res = res]
          /\ drives' = IF \E k \in DOMAIN drives : drives[k] = e THEN drives
                       ELSE Append(drives, e)
          /\ AfterCall(e, res)
    /\ UNCHANGED <<index, disk, now, rerun, runLog, summary, search, derived, pure>>

ChunkNext ==
    \/ StartDownload
    \/ DownloadAwards
    \/ DownloadAwardsChunk
    \/ DriveAward
    \/ CooldownSleep

SpecChunks == ChunkInit /\ [][ChunkNext]_vars

\* the same, with the process that runs download_awards going on as long as it can:
\* every loop of download_awards and download_awards_chunk takes its next step
SpecTermination ==
    /\ ChunkInit
    /\ [][ChunkNext]_vars
    /\ WF_vars(DownloadAwards)
    /\ WF_vars(DownloadAwardsChunk)
    /\ WF_vars(DriveAward)
    /\ WF_vars(CooldownSleep)

\* ---- combine_awards, check_summaries ------------------------------------------------
\* Of the three tags of valid_file_tags the model follows FederalAccountFunding, the
\* table check_summaries reads; the other two go through the same combine_tag_awards.

\* every raw folder is read, whether its award is in the award json or not
Replay_all_folders(idx, tbl) ==
    {<<e, tbl[e]>> : e \in {x \in Entities : tbl[x] # NoTable /\ funded[x]}}

\* the loop over the awards left after the first award
Replay_first(idx, tbl) ==
    {<<idx[k], tbl[idx[k]]>> :
        k \in {n \in DOMAIN idx : n = 1 /\ tbl[idx[n]] # NoTable /\ funded[idx[n]]}}

\* the rows combine_tag_awards collects from the raw folders tbl of the awards of
\* idx: the rows of tas_code of each funding table found, duplicates removed
Replay(idx, tbl) ==
    {<<idx[k], tbl[idx[k]]>> :
        k \in {n \in DOMAIN idx : tbl[idx[n]] # NoTable /\ funded[idx[n]]}}

\* the award json after a search that found the awards of idx
RowsOf(idx) ==
    [e \in Entities |-> IF \E k \in DOMAIN idx : idx[k] = e THEN "r1" ELSE NoRow]

\* an operation ends without writing
NothingWritten == UNCHANGED <<files, timeDict, combined, report>>

\* an empty table is exported as well
WriteCombined_empty(rows) == TRUE

\* combine_tag_awards: if len(df_list) > 0
WriteCombined(rows) == rows # {}

\* combine_tag_awards(tag, overwrite = ow)
CombineTagAwards(ow) ==
    /\ spc = "idle"
    /\ pc = "idle"
    /\ UNCHANGED <<index, disk, now, proc, hist, awardRows, drives, pure, funded,
                   spc, awardType, page, typeOut, out, latest>>
    /\ \E crit \in Cutoffs :
          LET ev == [NoStep EXCEPT !.name = "combined", !.crit = crit,
                        !.overwrite = (ow \/ check_overwrite("combined", crit))]
              rows == Replay(index, table) IN
          IF ~ev.overwrite
          THEN /\ sLast' = [ev EXCEPT !.step = "check", !.res = "returned"]
               /\ NothingWritten
          ELSE IF Len(index) = 0
          THEN \* no awards found
               /\ sLast' = [ev EXCEPT !.step = "noawards", !.res = "returned"]
               /\ NothingWritten
          ELSE \/ \* an import raises
                  /\ sLast' = [ev EXCEPT !.step = "import", !.res = "raised"]
                  /\ NothingWritten
               \/ IF WriteCombined(rows)
                  THEN /\ files' = files \cup {"combined"}
                       /\ combined' = rows
                       /\ report' = report
                       /\ \/ /\ sLast' = [ev EXCEPT !.step = "write", !.res = "returned"]
                             /\ timeDict' = export_downloaded_time("combined")
                          \/ \* KeyboardInterrupt after the file is written
                             /\ sLast' = [ev EXCEPT !.step = "write", !.res = "raised"]
                             /\ timeDict' = timeDict
                  ELSE /\ sLast' = [ev EXCEPT !.step = "norows", !.res = "returned"]
                       /\ NothingWritten

\* combine_awards
CombineAwards == CombineTagAwards(FALSE)

\* combine_tag_awards(tag, overwrite = True)
CombineTagOverwrite == CombineTagAwards(TRUE)

\* the report is made from whatever inputs are there
BothInputs_any(fs) == TRUE

\* check_summaries: len(program_activity) > 0 and df is not None
BothInputs(fs) == "program_activity" \in fs /\ "combined" \in fs

\* check_summaries(overwrite = ow)
CheckSummaries ==
    /\ spc = "idle"
    /\ pc = "idle"
    /\ UNCHANGED <<index, disk, now, proc, hist, awardRows, drives, pure, funded, combined,
                   spc, awardType, page, typeOut, out, latest>>
    /\ \E crit \in Cutoffs, ow \in BOOLEAN :
          LET ev == [NoStep EXCEPT !.name = "summary_check", !.crit = crit,
                        !.overwrite = (ow \/ check_overwrite("summary_check", crit))] IN
          IF ~ev.overwrite
          THEN /\ sLast' = [ev EXCEPT !.step = "check", !.res = "returned"]
               /\ UNCHANGED <<files, timeDict, report>>
          ELSE IF ~BothInputs(files)
          THEN \* missing FAF or program activity
               /\ sLast' = [ev EXCEPT !.step = "noinput", !.res = "returned"]
               /\ UNCHANGED <<files, timeDict, report>>
          ELSE \/ \* the comparison raises
                  /\ sLast' = [ev EXCEPT !.step = "compare", !.res = "raised"]
                  /\ UNCHANGED <<files, timeDict, report>>
               \/ \* _export_summary_lines
                  /\ files' = files \cup {"summary_check"}
                  /\ report' = <<combined>>
                  /\ \/ /\ sLast' = [ev EXCEPT !.step = "write", !.res = "returned"]
                        /\ timeDict' = export_downloaded_time("summary_check")
                     \/ \* KeyboardInterrupt after the file is written
                        /\ sLast' = [ev EXCEPT !.step = "write", !.res = "raised"]
                        /\ timeDict' = timeDict

\* search_awards as one step: check_overwrite, the search, json.dump,
\* export_downloaded_time
SearchAwards ==
    /\ spc = "idle"
    /\ pc = "idle"
    /\ UNCHANGED <<disk, now, proc, hist, drives, derived, pure,
                   spc, awardType, page, typeOut, out, latest>>
    /\ \E crit \in Cutoffs :
          LET ev == [NoStep EXCEPT !.name = "awards", !.crit = crit,
                                   !.overwrite = check_overwrite("awards", crit)] IN
          IF ~ev.overwrite
          THEN /\ sLast' = [ev EXCEPT !.step = "check", !.res = "returned"]
               /\ UNCHANGED <<index, summary>>
          ELSE \/ \* a request raises
                  /\ sLast' = [ev EXCEPT !.step = "post", !.res = "raised"]
                  /\ UNCHANGED <<index, summary>>
               \/ \E idx \in Indexes :
                     /\ index' = idx
                     /\ awardRows' = RowsOf(idx)
                     /\ files' = files \cup {"awards"}
                     /\ \/ /\ sLast' = [ev EXCEPT !.step = "write", !.res = "returned"]
                           /\ timeDict' = export_downloaded_time("awards")
                        \/ \* KeyboardInterrupt after the file is written
                           /\ sLast' = [ev EXCEPT !.step = "write", !.res = "raised"]
                           /\ timeDict' = timeDict

\* the raw folders of the awards of S were downloaded at time 1
Downloaded(S) ==
    /\ folder = [e \in Entities |-> IF e \in S THEN "complete" ELSE "absent"]
    /\ table = [e \in Entities |-> IF e \in S THEN 1 ELSE NoTable]
    /\ marker = [e \in Entities |-> IF e \in S THEN 1 ELSE NoMarker]
    /\ pending = [e \in Entities |-> NoRec]

\* after search_awards and download_awards at time 1
SummaryInit ==
    /\ index \in Indexes
    /\ \E S \in SUBSET Entities : Downloaded(S)
    /\ now = 1
    /\ DownloadIdle
    /\ funded \in [Entities -> BOOLEAN]
    /\ combined = {}
    /\ report = <<>>
    /\ arg = <<>>
    /\ ret = <<>>
    /\ files = {"awards"}
    /\ awardRows = RowsOf(index)
    /\ \/ timeDict = [exists |-> TRUE,
                      dict |-> [NoTimeFile.dict EXCEPT !["awards"] = Isoformat(1)]]
       \/ \* search_awards was interrupted before export_downloaded_time
          timeDict = NoTimeFile
    /\ SearchIdle

SummaryNext ==
    \/ SummaryTick
    \/ DownloadProgramActivity
    \/ SearchAwards
    \/ CombineAwards
    \/ CombineTagOverwrite
    \/ CheckSummaries

SpecSummary == SummaryInit /\ [][SummaryNext]_vars

\* ---- search, download, combine, one after the other -----------------------------------
\* AwardSearchDownload(critical_download_date = None).download_awards(soe), between
\* two summary operations
StartBatch ==
    /\ UNCHANGED aux
    /\ pc = "idle"
    /\ spc = "idle"
    /\ \E soe \in BOOLEAN : Begin(soe, NoCutoff)
    /\ UNCHANGED <<index, disk, now>>

\* after search_awards at time 1, nothing downloaded yet
PipelineInit ==
    /\ index \in Indexes
    /\ EmptyDisk
    /\ now = 1
    /\ DownloadIdle
    /\ NoDerived
    /\ files = {"awards"}
    /\ awardRows = RowsOf(index)
    /\ timeDict = [exists |-> TRUE,
                   dict |-> [NoTimeFile.dict EXCEPT !["awards"] = Isoformat(1)]]
    /\ SearchIdle

PipelineNext ==
    \/ SearchAwards
    \/ StartBatch
    \/ DownloadAwards
    \/ DownloadAwardsChunk
    \/ DownloadAwardData
    \/ CooldownSleep
    \/ CheckDownloadStatus
    \/ CombineAwards

SpecPipeline == PipelineInit /\ [][PipelineNext]_vars

\* the same with every batch started as download_awards(stop_on_errors = False)
StartLenient ==
    /\ UNCHANGED aux
    /\ pc = "idle"
    /\ spc = "idle"
    /\ Begin(FALSE, NoCutoff)
    /\ UNCHANGED <<index, disk, now>>

EndToEndNext ==
    \/ SearchAwards
    \/ StartLenient
    \/ DownloadAwards
    \/ DownloadAwardsChunk
    \/ DownloadAwardData
    \/ CooldownSleep
    \/ CheckDownloadStatus
    \/ CombineAwards

SpecEndToEnd == PipelineInit /\ [][EndToEndNext]_vars

\* ---- _make_tabbed_line ---------------------------------------------------------------
\* `diff / pa * 100` is computed in binary floating point: the quotient of the two
\* integers is rounded to MantissaBits bits (ties to even), so is its product with
\* 100, and int() drops the fraction. A float is [neg, exp, man]: man is the sequence
\* of the MantissaBits bits of the mantissa, first bit 1, and the value is
\* man * 2^(exp - MantissaBits + 1); Zero is 0.0.
Zero == [neg |-> FALSE, exp |-> 0, man |-> <<>>]

Abs(n) == IF n < 0 THEN 0 - n ELSE n

Front(sq) == SubSeq(sq, 1, Len(sq) - 1)

Last(sq) == sq[Len(sq)]

\* a / b scaled by a power of two into [1, 2): <<a', b', e>> with a/b = a'/b' * 2^e
RECURSIVE Scale(_, _, _)
Scale(a, b, e) ==
    IF a < b THEN Scale(2 * a, b, e - 1)
    ELSE IF a >= 2 * b THEN Scale(a, 2 * b, e + 1)
    ELSE <<a, b, e>>

\* the next n bits of r / b (r < b), and the remainder after them
RECURSIVE Digits(_, _, _)
Digits(r, b, n) ==
    IF n = 0 THEN <<>>
    ELSE IF 2 * r >= b THEN <<1>> \o Digits(2 * r - b, b, n - 1)
    ELSE <<0>> \o Digits(2 * r, b, n - 1)

RECURSIVE Remainder(_, _, _)
Remainder(r, b, n) ==
    IF n = 0 THEN r
    ELSE IF 2 * r >= b THEN Remainder(2 * r - b, b, n - 1)
    ELSE Remainder(2 * r, b, n - 1)

\* bits + 1 (one bit longer when every bit was 1)
RECURSIVE Inc(_)
Inc(bits) ==
    IF bits = <<>> THEN <<1>>
    ELSE IF Last(bits) = 0 THEN Front(bits) \o <<1>>
    ELSE Inc(Front(bits)) \o <<0>>

\* the float of mantissa bits and exponent e, after the mantissa was rounded up or not
Rounded(bits, e, up, neg) ==
    LET m == IF up THEN Inc(bits) ELSE bits IN
    IF Len(m) > MantissaBits
    THEN [neg |-> neg, exp |-> e + 1, man |-> Front(m)]
    ELSE [neg |-> neg, exp |-> e, man |-> m]

\* int / int: the quotient rounded to the nearest float, ties to even
TrueDiv(a, b) ==
    IF a = 0 THEN Zero
    ELSE LET sc == Scale(Abs(a), Abs(b), 0)
             bits == <<1>> \o Digits(sc[1] - sc[2], sc[2], MantissaBits - 1)
             r == Remainder(sc[1] - sc[2], sc[2], MantissaBits - 1)
             up == 2 * r > sc[2] \/ (2 * r = sc[2] /\ Last(bits) = 1)
         IN Rounded(bits, sc[3], up, (a < 0) # (b < 0))

\* the number a bit sequence stands for
RECURSIVE ToNat(_)
ToNat(bits) == IF bits = <<>> THEN 0 ELSE 2 * ToNat(Front(bits)) + Last(bits)

\* n written in k bits
Bits(n, k) == [j \in 1..k |-> (n \div 2^(k - j)) % 2]

RECURSIVE Strip(_)
Strip(bits) ==
    IF bits # <<>> /\ Head(bits) = 0 THEN Strip(Tail(bits)) ELSE bits

\* bits * 100, worked out on the mantissa in three pieces of at most 20 bits
Times100(bits) ==
    LET n == Len(bits)
        lo == 100 * ToNat(SubSeq(bits, n - 19, n))
        mid == 100 * ToNat(SubSeq(bits, n - 39, n - 20)) + lo \div 2^20
        hi == 100 * ToNat(SubSeq(bits, 1, n - 40)) + mid \div 2^20
    IN Strip(Bits(hi, 20)) \o Bits(mid % 2^20, 20) \o Bits(lo % 2^20, 20)

\* float * 100: the product rounded to the nearest float, ties to even
Mul100(x) ==
    IF x.man = <<>> THEN Zero
    ELSE LET p == Times100(x.man)
             top == SubSeq(p, 1, MantissaBits)
             rest == SubSeq(p, MantissaBits + 1, Len(p))
             up == /\ rest # <<>>
                   /\ rest[1] = 1
                   /\ \/ \E k \in 2..Len(rest) : rest[k] = 1
                      \/ Last(top) = 1
         IN Rounded(top, x.exp + (Len(p) - MantissaBits), up, x.neg)

\* int(float): the fraction is dropped
IntOf(x) ==
    IF x.man = <<>> \/ x.exp < 0 THEN 0
    ELSE LET n == ToNat(SubSeq(x.man, 1, x.exp + 1)) IN
         IF x.neg THEN 0 - n ELSE n

\* diff_pct = "--"
Dashes == <<>>

\* _make_tabbed_line(title, pa, faf): the difference and the percentage it prints
make_tabbed_line(pa, faf) ==
    LET diff == pa - faf IN
    [diff |-> diff,
     diff_pct |-> IF pa # 0 THEN <<IntOf(Mul100(TrueDiv(diff, pa)))>> ELSE Dashes]

\* the totals of a comparison: int(...) of the summary's amount and of the table's sum
Totals == 0..MaxTotal

LineInit ==
    /\ index = <<>>
    /\ EmptyDisk
    /\ now = 1
    /\ DownloadIdle
    /\ funded = [e \in Entities |-> TRUE]
    /\ combined = {}
    /\ report = <<>>
    /\ files = {}
    /\ awardRows = NoRows
    /\ timeDict = NoTimeFile
    /\ SearchIdle
    /\ arg \in Totals \X Totals
    /\ ret = <<>>

\* _compare_pa_to_faf: one call of _make_tabbed_line
MakeTabbedLine ==
    /\ ret = <<>>
    /\ Len(arg) = 2
    /\ ret' = <<make_tabbed_line(arg[1], arg[2])>>
    /\ UNCHANGED <<index, disk, now, proc, hist, summary, search, drives, derived, arg>>

LineNext == MakeTabbedLine

SpecLine == LineInit /\ [][LineNext]_vars

\* ---- _import_award_federal_account_funding -----------------------------------------
\* The funding table of one award and one fiscal year, after the filter on tas_code:
\* a sequence of rows [code, period, gross, outlay] with
\*   code    object_class_code (0: unknown)
\*   period  the number n of submission_period "FY<year>P<n>"
\*   gross   gross_outlay_amount_FYB_to_period_end (0: none)
\*   outlay  transaction_outlay_amount: <<>> (not set) or <<the amount>>
\* The fiscal years of a table are worked on one after the other, each on its own rows.
Codes == {0, 3, 4}
Periods == {1, 2, 10, FinalPeriod}
Grosses == {0, 5, 20, 30}
NoOutlay == <<>>

\* the characters of n in f"FY{fy}P{n}": no leading zero
PeriodName(n) == IF n < 10 THEN <<n>> ELSE <<n \div 10, n % 10>>

\* str < str, on the period names of one fiscal year
RECURSIVE StrLess(_, _)
StrLess(x, y) ==
    IF y = <<>> THEN FALSE
    ELSE IF x = <<>> THEN TRUE
    ELSE IF Head(x) # Head(y) THEN Head(x) < Head(y)
    ELSE StrLess(Tail(x), Tail(y))

\* the order sort_values(by = "submission_period") puts two periods in
PeriodLess(p, q) == StrLess(PeriodName(p), PeriodName(q))

\* df.sort_values(by = "submission_period"): rows of one period keep their order
SortValues(df) ==
    LET before(j, k) == \/ PeriodLess(df[j].period, df[k].period)
                        \/ (df[j].period = df[k].period /\ j < k)
        rank(k) == Cardinality({j \in DOMAIN df : before(j, k)}) + 1
    IN [n \in DOMAIN df |-> df[CHOOSE k \in DOMAIN df : rank(k) = n]]

\* outlays: the rows that have a gross outlay
Outlays(df) == {k \in DOMAIN df : df[k].gross # 0}

\* Series.unique(): the values in the order they first appear
RECURSIVE Unique(_)
Unique(sq) ==
    IF sq = <<>> THEN <<>>
    ELSE LET rest == Unique(Front(sq)) IN
         IF \E k \in DOMAIN rest : rest[k] = Last(sq) THEN rest ELSE rest \o <<Last(sq)>>

\* the codes of the rows of indices, in the order of the table
RECURSIVE CodesAt(_, _)
CodesAt(df, indices) ==
    IF df = <<>> THEN <<>>
    ELSE CodesAt(Front(df), indices)
            \o (IF Len(df) \in indices THEN <<Last(df).code>> ELSE <<>>)

\* the unknown code is kept among the codes
KnownCodes_all(codes) == codes

\* [code for code in class_codes if code > 0]
KnownCodes(codes) == SelectSeq(codes, LAMBDA c : c > 0)

\* the last known code takes the unknown amounts
ReplacementCode_last(known) == known[Len(known)]

\* replacement_code = class_codes[0]
ReplacementCode(known) == known[1]

\* the unknown code is merged whatever its rows are
NoFinalRow_always(df, indices) == TRUE

\* no row of the unknown code is of period 12
NoFinalRow(df, indices) ==
    ~\E k \in indices :
        PeriodName(df[k].period) = PeriodName(FinalPeriod) /\ df[k].code = 0

\* the unknown codes are folded into another code
Merging(df, indices) ==
    LET codes == Unique(CodesAt(df, indices)) IN
    /\ \E k \in DOMAIN codes : codes[k] = 0
    /\ Len(codes) > 1
    /\ NoFinalRow(df, indices)

\* _check_class_codes: <<the table, the codes to work on>>
check_class_codes(df, indices) ==
    LET codes == Unique(CodesAt(df, indices)) IN
    IF Merging(df, indices)
    THEN LET known == KnownCodes(codes)
             replacement == ReplacementCode(known)
             unknown_gross(n) ==
                 IF \E k \in indices : PeriodName(df[k].period) = PeriodName(n)
                                         /\ df[k].code = 0
                 THEN (CHOOSE r \in {df[k] : k \in indices} :
                          PeriodName(r.period) = PeriodName(n) /\ r.code = 0).gross
                 ELSE 0
             catcher(k) == k \in indices /\ df[k].code = replacement
         IN <<[k \in DOMAIN df |->
                 IF catcher(k)
                 THEN [df[k] EXCEPT !.gross = @ + unknown_gross(df[k].period)]
                 ELSE df[k]],
              known>>
    ELSE <<df, codes>>

\* _calculate_outlays_for_indices on the rows of every code of codes:
\* gross_outlays.diff().fillna(gross_outlays)
calculate_outlays_for_indices(df, indices, codes) ==
    [k \in DOMAIN df |->
        IF k \in indices /\ \E n \in DOMAIN codes : codes[n] = df[k].code
        THEN LET class == {j \in indices : df[j].code = df[k].code}
                 earlier == {j \in class : j < k}
             IN IF earlier = {}
                THEN [df[k] EXCEPT !.outlay = <<df[k].gross>>]
                ELSE LET prev == CHOOSE j \in earlier : \A m \in earlier : m <= j IN
                     [df[k] EXCEPT !.outlay = <<df[k].gross - df[prev].gross>>]
        ELSE df[k]]

\* _calculate_outlays_for_fiscal_year
calculate_outlays_for_fiscal_year(df, outlays) ==
    IF outlays = {} THEN df
    ELSE LET checked == check_class_codes(df, outlays) IN
         calculate_outlays_for_indices(checked[1], outlays, checked[2])

\* _import_award_federal_account_funding, from the rows read to the table returned
import_award_federal_account_funding(file) ==
    IF Len(file) = 0 THEN file
    ELSE LET df == SortValues(file) IN
         calculate_outlays_for_fiscal_year(df, Outlays(df))

\* the rows of a file: cells gives the gross outlay of some period and code; the file
\* lists the periods in their order and the codes of a period in the order of codes
RECURSIVE FileOf(_, _, _)
FileOf(cells, codes, n) ==
    IF n = 0 THEN <<>>
    ELSE LET p == CHOOSE q \in Periods : Cardinality({x \in Periods : x < q}) = n - 1
             row(c) == IF <<c, p>> \in DOMAIN cells
                       THEN <<[code |-> c, period |-> p, gross |-> cells[<<c, p>>],
                               outlay |-> NoOutlay]>>
                       ELSE <<>>
         IN FileOf(cells, codes, n - 1) \o row(codes[1]) \o row(codes[2]) \o row(codes[3])

\* the orders the codes of one period come in
CodeOrders == {<<0, 3, 4>>, <<0, 4, 3>>}

NormalizerInit ==
    /\ index = <<>>
    /\ EmptyDisk
    /\ now = 1
    /\ DownloadIdle
    /\ funded = [e \in Entities |-> TRUE]
    /\ combined = {}
    /\ report = <<>>
    /\ files = {}
    /\ awardRows = NoRows
    /\ timeDict = NoTimeFile
    /\ SearchIdle
    /\ \* a file of at most MaxDfRows rows
       \E K \in SUBSET (Codes \X Periods), codes \in CodeOrders :
          /\ Cardinality(K) <= MaxDfRows
          /\ \E cells \in [K -> Grosses] : arg = FileOf(cells, codes, Cardinality(Periods))
    /\ ret = <<>>

\* combine_tag_awards: df = self._import_award_federal_account_funding(file)
ImportAwardFederalAccountFunding ==
    /\ ret = <<>>
    /\ ret' = <<import_award_federal_account_funding(arg)>>
    /\ UNCHANGED <<index, disk, now, proc, hist, summary, search, drives, derived, arg>>

NormalizerNext == ImportAwardFederalAccountFunding

SpecNormalizer == NormalizerInit /\ [][NormalizerNext]_vars

\* ---- check_summaries: the loop over the fiscal years -----------------------------------
\* What check_summaries reads is in arg:
\*   activity  the program activity json as download_program_activity wrote it: one entry
\*             for every year of fiscal_year_range at the time of the download, in order;
\*             an entry is the list of results of the year, taken by whether it is empty
\*   funding   the fiscal years the combined FederalAccountFunding csv has rows of
\*   year      datetime.now().year when check_summaries runs
\* and what it did is in ret: <<[res |-> "returned" | "raised", lines |-> the fiscal years
\* that got a section in the summary check file]>>.

\* range(2017, y + 1)
fiscal_year_range(y) == FirstYear..y

Years == fiscal_year_range(FirstYear + MaxYears)

\* program_activity.get(str(fiscal_year)) has no value
None == "None"

\* program_activity.get(str(fiscal_year))
ActivityList(activity, fy) ==
    IF fy - FirstYear + 1 \in DOMAIN activity THEN activity[fy - FirstYear + 1] ELSE None

\* the program activity jsons download_program_activity can write
Activities == UNION {[1..n -> {"empty", "results"}] : n \in 1..(MaxYears + 1)}

\* the loop of check_summaries over the fiscal years from fy on, lines being the years
\* that got a section so far: len(activity_list) raises TypeError on None
RECURSIVE CompareYears(_, _, _, _, _)
CompareYears(activity, funding, fy, year, lines) ==
    IF fy > year THEN [res |-> "returned", lines |-> lines]
    ELSE IF ActivityList(activity, fy) = None THEN [res |-> "raised", lines |-> lines]
    ELSE CompareYears(activity, funding, fy + 1, year,
             IF ActivityList(activity, fy) # "empty" \/ fy \in funding
             THEN Append(lines, fy) ELSE lines)

ReconcileInit ==
    /\ index = <<>>
    /\ EmptyDisk
    /\ now = 1
    /\ DownloadIdle
    /\ funded = [e \in Entities |-> TRUE]
    /\ combined = {}
    /\ report = <<>>
    /\ files = {"program_activity", "combined"}
    /\ awardRows = NoRows
    /\ timeDict = [exists |-> TRUE,
                   dict |-> [NoTimeFile.dict EXCEPT !["program_activity"] = Isoformat(1),
                                                    !["combined"] = Isoformat(1)]]
    /\ SearchIdle
    /\ arg \in {a \in [activity : Activities, funding : SUBSET Years, year : Years] :
                   a.year >= FirstYear + Len(a.activity) - 1}
    /\ ret = <<>>

\* check_summaries(overwrite = True), both inputs being there
CheckSummariesOverwrite ==
    /\ ret = <<>>
    /\ BothInputs(files)
    /\ LET r == CompareYears(arg.activity, arg.funding, FirstYear, arg.year, <<>>) IN
       /\ ret' = <<r>>
       /\ IF r.res = "raised"
          THEN UNCHANGED <<files, timeDict, report>>
          ELSE \* _export_summary_lines
               /\ files' = files \cup {"summary_check"}
               /\ report' = <<combined>>
               /\ timeDict' = export_downloaded_time("summary_check")
    /\ UNCHANGED <<index, disk, now, proc, hist, awardRows, search, drives, funded, combined,
                   arg>>

ReconcileNext == CheckSummariesOverwrite

SpecReconcile == ReconcileInit /\ [][ReconcileNext]_vars

\* ---- properties ----------------------------------------------------------------
\* the raw folder of e exists and its Downloaded Marker (recorded, or inferred from
\* the funding table, or the epoch) is not before the cutoff, if there is a cutoff
Fresh(e) ==
    /\ folder[e] # "absent"
    /\ \/ cutoff = NoCutoff
       \/ (IF marker[e] # NoMarker THEN marker[e]
           ELSE IF table[e] # NoTable THEN table[e] ELSE 0) >= cutoff

\* the award the last step drove, when that step ended its call and the loop went on
driven == pendingList[i]

\* C1 as stated: a call of download_award_data for an award whose raw folder exists
\* and whose Downloaded Marker is not before the cutoff (or there is no cutoff)
\* returns not pending, makes no network call and leaves the raw folder, the marker
\* and the pending file as they are.
C1_AsStated ==
    [][(pc = "for" /\ Fresh(cur)) =>
          /\ last'.res = "notpending"
          /\ last'.net = <<>>
          /\ folder' = folder /\ table' = table
          /\ marker' = marker
          /\ pending' = pending]_vars

\* C1, amended: such a call returns not pending, makes no network call and leaves
\* the raw folder and the pending file as they are; the marker is left as it is when
\* one is recorded, and when none is recorded and a cutoff is set the time inferred
\* from the funding table is written as the marker.
C1_EntryGuard ==
    [][(pc = "for" /\ Fresh(cur)) =>
          /\ last'.res = "notpending"
          /\ last'.net = <<>>
          /\ folder' = folder /\ table' = table
          /\ marker' = [marker EXCEPT ![cur] =
                          IF @ = NoMarker /\ cutoff # NoCutoff THEN table[cur] ELSE @]
          /\ pending' = pending]_vars

\* the entry guard skipped an award under a cutoff after inferring its marker
C1_Witness ==
    /\ last.step = "skip"
    /\ pc \in {"for", "sweep"}
    /\ cutoff # NoCutoff
    /\ marker[driven] = table[driven]
    /\ marker[driven] >= cutoff

\* C2 as stated: a download_awards call with no cutoff that follows a call that
\* returned makes no network call.
C2_AsStated == [][rerun => last'.net = <<>>]_vars

\* C2, amended: a download_awards call with no cutoff makes no network call for an
\* award whose raw folder exists, and a raw folder, once there, stays; so the second
\* run makes no network call when every award of the index has its raw folder. (An
\* award without a raw folder, such as one that ended FAILED, is requested again.)
C2_Idempotence ==
    [][/\ (pc \in {"for", "poll"} /\ cutoff = NoCutoff /\ folder[cur] # "absent")
            => last'.net = <<>>
       /\ \A e \in Entities : folder[e] # "absent" => folder'[e] # "absent"]_vars

\* a second run without cutoff skipped an award at the entry guard
C2_Witness ==
    /\ rerun
    /\ last.step = "skip"
    /\ outcome = "running"

\* C3: download_award_data entered for an award with a pending file goes to the
\* polling loop (the call polls the recorded status location, unless the sleep before
\* the first poll is interrupted); the file is not left in place unpolled.
C3_ResumeByPolling ==
    [][(pc = "for" /\ pending[cur] # NoRec) =>
          (pc' = "poll" \/ last'.res = "interrupt")]_vars

\* C4: a download-job request answered without status location writes no pending
\* file, is followed by no poll and no fetch, makes download_award_data return not
\* pending without raising, does not put the award back on the list, and the award
\* is not driven again in this run.
C4_Rejected ==
    [][/\ (last'.step = "request" /\ last'.resp # NoResp /\ "status_url" \notin last'.resp) =>
             /\ pending' = pending /\ pending[cur] = NoRec
             /\ last'.net = <<"request">>
             /\ last'.res = "notpending"
             /\ outcome' = outcome
             /\ newPendingList' = newPendingList
             /\ runLog'[cur] = "rejected"
       /\ pc \in {"for", "poll", "cooldown"} => runLog[cur] # "rejected"]_vars

\* a request was answered with an error detail and the batch went on
C4_Witness ==
    /\ last.step = "request"
    /\ last.resp = {"detail"}
    /\ outcome = "running"
    /\ runLog[driven] = "rejected"

\* C5: a poll is made only after fewer than tries polls of the same call; a poll
\* that reports running or ready leaves the disk as it is (the pending file is
\* there), and the call then polls again or, after the last try, returns pending
\* without raising.
C5_BoundedPolling ==
    [][pc = "poll" =>
          /\ attempt < 10
          /\ last'.status \in {"running", "ready"} =>
                /\ disk' = disk
                /\ pending[cur] # NoRec
                /\ \/ pc' = "poll" /\ attempt' = attempt + 1 /\ attempt' < 10
                      /\ last'.res = "none"
                   \/ attempt + 1 = 10 /\ last'.res = "pending" /\ outcome' = outcome
                   \/ last'.res = "interrupt"]_vars

\* the tenth poll of a call reported ready and the call returned pending
C5_Witness ==
    /\ last.status = "ready"
    /\ last.res = "pending"
    /\ pending[driven] # NoRec
    /\ folder[driven] = "absent"

\* C6: a poll that reports finished is followed by the fetch; the marker is stamped
\* (with the current time) only when the raw folder is completely unpacked; the
\* pending file is deleted only when the marker is stamped, and then the call returns
\* not pending; when the fetch or the unpacking raises, the pending file is as it was.
C6_Finished ==
    [][(pc = "poll" /\ last'.status = "finished") =>
          /\ last'.net = <<"poll", "fetch">>
          /\ marker'[cur] # marker[cur] => (marker'[cur] = now /\ folder'[cur] = "complete")
          /\ pending'[cur] = NoRec =>
                (marker'[cur] = now /\ folder'[cur] = "complete" /\ last'.res = "notpending")
          /\ last'.res = "notpending" => (pending'[cur] = NoRec /\ outcome' = outcome)
          /\ last'.res # "notpending" =>
                (pending' = pending /\ last'.res \in {"transient", "error", "interrupt"})]_vars

\* a finished download was fetched, unpacked and stamped, and its pending file deleted
C6_Witness ==
    /\ last.status = "finished"
    /\ last.res = "notpending"
    /\ folder[driven] = "complete"
    /\ marker[driven] = now
    /\ pending[driven] = NoRec

\* C7: a poll that reports a status other than finished, running or ready (a
\* response without status field reads as unknown) deletes the pending file, is
\* followed by no fetch, leaves raw folder and marker as they are, raises nothing and
\* makes the call return not pending.
C7_Failed ==
    [][(pc = "poll" /\ last'.status \notin {"none", "finished", "running", "ready"}) =>
          /\ pending' = [pending EXCEPT ![cur] = NoRec]
          /\ last'.net = <<"poll">>
          /\ folder' = folder /\ table' = table /\ marker' = marker
          /\ last'.res = "notpending"
          /\ outcome' = outcome]_vars

\* a poll answered without status field deleted the pending file and the batch went on
C7_Witness ==
    /\ last.status = "unknown"
    /\ last.res = "notpending"
    /\ outcome = "running"
    /\ pending[driven] = NoRec

\* C8 as stated: a pending file without status location or file location is deleted
\* without network call, and the award is put on the list of the next sweep of this
\* run.
C8_AsStated ==
    [][last'.step = "malformed" =>
          /\ pending'[cur] = NoRec
          /\ last'.net = <<>>
          /\ newPendingList' = Append(newPendingList, cur)]_vars

\* C8, amended: a pending file without status location or file location is deleted
\* without network call and the call returns not pending, so the award is not put on
\* the list of the next sweep and is not driven again in this run; a later run that
\* drives the award (no pending file now) and does not skip it at the entry guard
\* makes a fresh download-job request.
C8_Malformed ==
    [][/\ (pc = "poll" /\ ~({"status_url", "file_url"} \subseteq pending[cur])) =>
             /\ last'.step = "malformed"
             /\ pending' = [pending EXCEPT ![cur] = NoRec]
             /\ last'.net = <<>>
             /\ folder' = folder /\ table' = table /\ marker' = marker
             /\ last'.res = "notpending"
             /\ outcome' = outcome
             /\ newPendingList' = newPendingList
             /\ \A k \in 1..Len(newPendingList') : newPendingList'[k] # cur
       /\ (pc = "for" /\ pending[cur] = NoRec /\ ~Fresh(cur)) =>
             last'.net = <<"request">>]_vars

\* a pending file without file location was deleted and the batch went on without
\* putting the award back
C8_Witness ==
    /\ last.step = "malformed"
    /\ outcome = "running"
    /\ pending[driven] = NoRec
    /\ \A k \in 1..Len(newPendingList) : newPendingList[k] # driven

\* C9: an award whose call returns pending is appended to the list of the next
\* sweep; while the call of download_awards runs, every award whose most recent
\* drive returned pending is on that list or still to come in this sweep; a sweep
\* that ends with awards on the list is followed by a sweep over that list, in which
\* every award of the list is driven; and download_awards does not return while the
\* most recent drive of an award returned pending.
C9_Sweeps ==
    [][/\ last'.res = "pending" =>
             (newPendingList' = Append(newPendingList, cur) /\ outcome' = outcome)
       /\ \A e \in Entities :
             (runLog[e] = "pending" /\ pc # "idle") =>
                \/ \E k \in 1..Len(newPendingList) : newPendingList[k] = e
                \/ \E k \in (i + 1)..Len(pendingList) : pendingList[k] = e
       /\ (pc = "sweep" /\ Len(newPendingList) > 0) =>
             (pc' = "for" /\ pendingList' = newPendingList /\ i' = 0)
       /\ pc = "for" => last'.step \in {"skip", "resume", "request"}
       /\ (pc \in {"for", "poll", "cooldown"} /\ pc' \in {"for", "sweep"}) => i' = i + 1
       /\ (pc \in {"for", "poll"} /\ pc' = "sweep") => i' = Len(pendingList)
       /\ outcome' = "returned" => \A e \in Entities : runLog[e] # "pending"]_vars

\* an award that returned pending in a sweep is being driven again in the next one
C9_Witness ==
    /\ pc \in {"for", "poll"}
    /\ runLog[cur] = "pending"
    /\ outcome = "running"

C11_NonTransient ==
    [][/\ last'.res = "error" =>
             IF stopOnErrors
             THEN pc' = "idle" /\ outcome' = "raised"
             ELSE /\ newPendingList' = newPendingList
                  /\ \A k \in 1..Len(newPendingList') : newPendingList'[k] # cur
                  /\ outcome' = outcome
                  /\ pendingList' = pendingList /\ i' = i + 1
                  /\ pc' = (IF i + 1 < Len(pendingList) THEN "for" ELSE "sweep")
       /\ pc = "idle" => (last'.net = <<>> /\ last'.step = "none")
       /\ (outcome = "running" /\ outcome' = "raised") =>
             (last'.res = "error" /\ stopOnErrors)]_vars

\* without stop_on_errors the fetch of the first award raised an error and the second
\* award is about to be driven
C11_Witness ==
    /\ pc = "for"
    /\ ~stopOnErrors
    /\ last.res = "error"
    /\ last.net = <<"poll", "fetch">>
    /\ i = 1
    /\ newPendingList = <<>>
    /\ outcome = "running"

\* C12: a KeyboardInterrupt out of download_award_data (raised by the request, a
\* poll, the fetch or a sleep between polls) or during the cooldown ends
\* download_awards as interrupted, with stop_on_errors and without: the loop does not
\* go on, the award is not put on a list that is swept, and nothing but the start of
\* another call follows (no network call).
C12_Cancellation ==
    [][/\ (last'.res = "interrupt" \/ (pc = "cooldown" /\ last'.sleep # 5 * 60)) =>
             /\ pc' = "idle"
             /\ outcome' = "interrupted"
             /\ newPendingList' = <<>> /\ pendingList' = <<>>
       /\ (outcome = "running" /\ outcome' = "interrupted") =>
             (last'.res = "interrupt" \/ (pc = "cooldown" /\ last'.step = "cooldown"))
       /\ (pc = "idle" /\ outcome = "interrupted") =>
             (last'.net = <<>> /\ last'.step = "none" /\ pc' \in {"idle", "chunks"})]_vars

\* the fetch of a finished download was interrupted after the raw folder was created
C12_Witness ==
    /\ outcome = "interrupted"
    /\ pc = "idle"
    /\ last.res = "interrupt"
    /\ last.net = <<"poll", "fetch">>
    /\ \E e \in Entities : folder[e] = "partial" /\ pending[e] # NoRec

\* the time recorded for the artifact name in downloaded.json
RecordedTime(name) == timeDict.dict[name][1] * TicksPerDay + timeDict.dict[name][2]

\* C18: check_overwrite returns true for an artifact file that does not exist,
\* whatever the cutoff (set or not) and whatever downloaded.json holds.
C18_MissingArtifact ==
    [][(spc = "idle" /\ sLast'.name \in ArtifactNames /\ sLast'.name \notin files) =>
          sLast'.overwrite]_vars

\* without cutoff, and with a downloaded.json that exists, a missing artifact was
\* found to need a rebuild (which then failed, so that it is still missing)
C18_Witness ==
    /\ sLast.overwrite
    /\ sLast.crit = NoCutoff
    /\ sLast.res = "raised"
    /\ sLast.name = "awards"
    /\ "awards" \notin files
    /\ timeDict.exists
    /\ timeDict.dict["program_activity"] # <<>>

\* C19: for an existing artifact with a recorded time, check_overwrite returns false
\* when no cutoff is set, and with a cutoff it returns true exactly when the recorded
\* time is before the cutoff (a time equal to the cutoff is fresh).
C19_Recorded ==
    [][(/\ spc = "idle"
        /\ sLast'.name \in files
        /\ timeDict.exists
        /\ timeDict.dict[sLast'.name] # <<>>) =>
          sLast'.overwrite =
             (sLast'.crit # -1 /\ RecordedTime(sLast'.name) < sLast'.crit)]_vars

\* an artifact recorded at the time of the cutoff was found fresh
C19_Witness ==
    /\ sLast.step = "check"
    /\ ~sLast.overwrite
    /\ sLast.crit # -1
    /\ sLast.name \in files
    /\ RecordedTime(sLast.name) = sLast.crit

\* C20: for an existing artifact without recorded time (downloaded.json is absent, or
\* it has no entry for the artifact) check_overwrite returns true, with a cutoff and
\* without.
C20_NoTimestamp ==
    [][(/\ spc = "idle"
        /\ sLast'.name \in files
        /\ (~timeDict.exists \/ timeDict.dict[sLast'.name] = <<>>)) =>
          sLast'.overwrite]_vars

\* C14: the first request of a build is for page 1 of the first award type; after a
\* page with hasNext the next request is for the next page of the same award type;
\* after a page without hasNext the next request is for page 1 of the next award type,
\* and after such a page of the last award type no request is made. So the pages
\* requested for an award type are 1, 2, ..., k, k the first page without hasNext,
\* each once, one award type after the other in the order of award_types.
C14_Pagination ==
    [][/\ (spc = "idle" /\ spc' # "idle") =>
             (spc' = "post" /\ awardType' = 1 /\ page' = 1)
       /\ sLast'.step = "post" => (spc = "post" /\ sLast'.req = <<awardType, page>>)
       /\ (sLast'.step = "post" /\ sLast'.res = "none" /\ sLast'.hasNext) =>
             (spc' = "sleep" /\ awardType' = awardType /\ page' = page + 1)
       /\ (spc = "sleep" /\ sLast'.res = "none") =>
             (spc' = "post" /\ awardType' = awardType /\ page' = page
              /\ sLast'.req = <<>>)
       /\ (sLast'.step = "post" /\ sLast'.res = "none" /\ ~sLast'.hasNext) =>
             IF awardType < 6
             THEN spc' = "post" /\ awardType' = awardType + 1 /\ page' = 1
             ELSE spc' = "write"
       /\ spc = "write" => (sLast'.req = <<>> /\ spc' = "idle")]_vars

\* the second page of the last award type was the first without hasNext, and the
\* award json is about to be written
C14_Witness ==
    /\ spc = "write"
    /\ sLast.step = "post"
    /\ sLast.req = <<6, 2>>
    /\ ~sLast.hasNext

\* C15: a page with hasNext is followed by a sleep of one second, and the next request
\* comes after the sleep; a sleep comes only after a page with hasNext, so none
\* follows the last page of an award type.
C15_RateLimit ==
    [][/\ (sLast'.step = "post" /\ sLast'.res = "none" /\ sLast'.hasNext) => spc' = "sleep"
       /\ spc = "sleep" =>
             /\ sLast'.step = "sleep"
             /\ sLast'.req = <<>>
             /\ sLast'.res = "none" => (sLast'.sleep = 1 /\ spc' = "post")
       /\ sLast'.step = "sleep" =>
             (spc = "sleep" /\ sLast.step = "post" /\ sLast.hasNext)
       /\ (sLast'.step = "post" /\ sLast'.res = "none" /\ ~sLast'.hasNext) =>
             spc' # "sleep"]_vars

\* the sleep after the first page of the third award type is over
C15_Witness ==
    /\ sLast.step = "sleep"
    /\ sLast.sleep = 1
    /\ spc = "post"
    /\ awardType = 3
    /\ page = 2

\* C16: the award json that search_awards writes holds, for every identifier of a row
\* of a response of this build, the row of the latest response that had one, and
\* nothing else; its keys are those identifiers, each once.
C16_Deduplicated ==
    [][sLast'.step = "write" =>
          /\ "awards" \in files'
          /\ awardRows' = latest
          /\ {index'[k] : k \in DOMAIN index'} = {e \in Entities : latest[e] # "none"}
          /\ \A j, k \in DOMAIN index' : j # k => index'[j] # index'[k]]_vars

\* an award found with one row under the award types before is found with another row
\* under this award type
C16_Witness ==
    /\ spc = "sleep"
    /\ awardType > 1
    /\ out["a1"] = "r1"
    /\ typeOut["a1"] = "r2"
    /\ latest["a1"] = "r2"
    /\ latest["a2"] = "r1"
    /\ typeOut["a2"] = "none"

\* C17: a search request that raises ends search_awards, and the award json, its keys
\* and downloaded.json are as they were; no step of a build before its last one (the
\* write after the last page of the last award type) changes them.
C17_Atomic ==
    [][/\ (sLast'.step = "post" /\ sLast'.res = "raised") =>
             /\ spc' = "idle"
             /\ files' = files /\ awardRows' = awardRows /\ index' = index
             /\ timeDict' = timeDict
       /\ (spc # "idle" /\ sLast'.step # "write") =>
             /\ files' = files /\ awardRows' = awardRows /\ index' = index
             /\ timeDict' = timeDict
       /\ (spc = "idle" /\ spc' = "post") =>
             (files' = files /\ awardRows' = awardRows /\ index' = index
              /\ timeDict' = timeDict)]_vars

\* the request for the second page of the third award type raised after rows were
\* found, in a build over an existing award json
C17_Witness ==
    /\ sLast.step = "post"
    /\ sLast.res = "raised"
    /\ sLast.req = <<3, 2>>
    /\ spc = "idle"
    /\ "awards" \in files
    /\ awardRows["a1"] = "r1"
    /\ timeDict.dict["awards"] # <<>>

\* the awards a sweep is over, or will be over, belong to the chunk that starts after
\* j0; the awards driven so far, in the order of their first drive, are the first
\* awards of the award json in its order
ChunkOrder ==
    /\ j0 % 10 = 0
    /\ drives = SubSeq(index, 1, Len(drives))
    /\ pc \in {"for", "cooldown"} =>
          \A k \in DOMAIN pendingList :
             \E n \in (j0 + 1)..(j0 + 10) : n <= Len(index) /\ pendingList[k] = index[n]
    /\ pc \in {"sweep", "for", "cooldown"} =>
          \A k \in DOMAIN newPendingList :
             \E n \in (j0 + 1)..(j0 + 10) : n <= Len(index) /\ newPendingList[k] = index[n]
    /\ outcome = "returned" => drives = index

\* C13: download_awards takes the identifiers of the award json ten at a time: the
\* chunk that starts after j0 is index[j0+1..j0+10] (cut at the end of the list), j0
\* goes 0, 10, 20, ..., the first sweep of a chunk is over the chunk in its order, and
\* every sweep is over awards of the chunk only; the first drives of the awards
\* happen in the order of the award json, and when download_awards returns every
\* award was driven.
C13_Chunking ==
    [][/\ ChunkOrder'
       /\ (pc = "chunks" /\ pc' = "sweep") =>
             /\ Len(newPendingList') <= 10
             /\ Len(newPendingList') = (IF Len(index) - j0 < 10 THEN Len(index) - j0 ELSE 10)
             /\ \A k \in DOMAIN newPendingList' : newPendingList'[k] = index[j0 + k]
       /\ (pc = "sweep" /\ pc' = "chunks") => (j0' = j0 + 10 /\ newPendingList = <<>>)
       /\ (pc = "sweep" /\ pc' = "for") => (pendingList' = newPendingList /\ i' = 0)
       /\ (pc = "for" /\ pc' # "idle") =>
             \E k \in DOMAIN drives' : drives'[k] = pendingList[i + 1]]_vars

\* download_awards returned from an award json of two chunks and one award
C13_Witness ==
    /\ outcome = "returned"
    /\ Len(index) = 21
    /\ drives = index

\* C21: an operation that returns after writing a derived artifact (program activity
\* json, award json, combined table, summary check file) leaves the time file
\* existing, with the entry of that artifact at the current time and every other
\* entry as it was; a step that writes no artifact leaves the time file as it was.
C21_TimestampRefresh ==
    [][/\ (sLast'.step = "write" /\ sLast'.res = "returned") =>
             /\ sLast'.name \in files'
             /\ timeDict'.exists
             /\ timeDict'.dict[sLast'.name] = Isoformat(now)
             /\ FromIsoformat(timeDict'.dict[sLast'.name]) = now
             /\ \A n \in ArtifactNames \ {sLast'.name} :
                   timeDict'.dict[n] = timeDict.dict[n]
       /\ sLast'.step # "write" =>
             /\ timeDict' = timeDict
             /\ UNCHANGED <<files, awardRows, combined, report>>]_vars

\* the combined table was written at time 2 into a time file that had the entry of
\* the award json from time 1
C21_Witness ==
    /\ sLast.step = "write"
    /\ sLast.res = "returned"
    /\ sLast.name = "combined"
    /\ now = 2
    /\ timeDict.dict["combined"] = Isoformat(2)
    /\ timeDict.dict["awards"] = Isoformat(1)

\* C22: combine_tag_awards writes no file and changes no timestamp when the award
\* json has no award or no row of any award's table passes the filter; a combined
\* table that is written, and one that exists, has at least one row.
C22_NeverEmpty ==
    [][/\ (sLast'.name = "combined" /\ (Len(index) = 0 \/ Replay(index, table) = {})) =>
             /\ sLast'.step # "write"
             /\ UNCHANGED <<files, timeDict, combined>>
       /\ (sLast'.name = "combined" /\ sLast'.step = "write") => combined' # {}
       /\ "combined" \in files' => combined' # {}]_vars

\* combine_tag_awards found the funding table of an award, no row of it passed the
\* filter, and it returned without a combined table
C22_Witness ==
    /\ sLast.name = "combined"
    /\ sLast.step = "norows"
    /\ \E k \in DOMAIN index : table[index[k]] # NoTable /\ ~funded[index[k]]
    /\ "combined" \notin files
    /\ timeDict.dict["combined"] = NoEntry

\* C25: check_summaries, when it goes past check_overwrite, writes no summary check
\* file and no timestamp if the program activity json or the combined funding table
\* is missing: the files, the time file and an existing report stay as they were.
C25_BothInputs ==
    [][(/\ sLast'.name = "summary_check"
        /\ sLast'.overwrite
        /\ ("program_activity" \notin files \/ "combined" \notin files)) =>
             /\ sLast'.step = "noinput"
             /\ sLast'.res = "returned"
             /\ UNCHANGED <<files, timeDict, report, combined>>]_vars

\* check_summaries ran with the program activity json and without a combined table
C25_Witness ==
    /\ sLast.name = "summary_check"
    /\ sLast.step = "noinput"
    /\ "program_activity" \in files
    /\ "combined" \notin files
    /\ "summary_check" \notin files
    /\ timeDict.dict["summary_check"] = NoEntry

\* C23 as stated: whenever combine_awards has just returned and the combined table
\* exists, the table holds exactly the rows of tas_code of the funding tables now in
\* the raw folders of the awards now in the award json.
C23_AsStated ==
    [][(/\ pc = "idle" /\ pc' = "idle"
        /\ sLast'.name = "combined"
        /\ sLast'.res = "returned"
        /\ "combined" \in files') =>
             combined' = {<<e, table'[e]>> :
                             e \in {x \in Entities :
                                      /\ \E k \in DOMAIN index' : index'[k] = x
                                      /\ table'[x] # NoTable
                                      /\ funded'[x]}}]_vars

\* C23: whenever combine_awards has just written the combined table, the table holds
\* exactly the rows of tas_code of the funding tables in the raw folders of the awards
\* in the award json; a call that check_overwrite turns down, or that finds no award
\* or no row, leaves the combined table and the raw folders as they were.
C23_Reproducible ==
    [][(/\ pc = "idle" /\ pc' = "idle"
        /\ sLast'.name = "combined"
        /\ sLast'.res = "returned") =>
             /\ UNCHANGED <<index, table, folder, funded>>
             /\ IF sLast'.step = "write"
                THEN /\ sLast'.overwrite
                     /\ "combined" \in files'
                     /\ combined' = {<<e, table[e]>> :
                                        e \in {x \in Entities :
                                                 /\ \E k \in DOMAIN index : index[k] = x
                                                 /\ table[x] # NoTable
                                                 /\ funded[x]}}
                ELSE /\ combined' = combined
                     /\ files' = files
                     /\ sLast'.step = "check" <=> ~sLast'.overwrite]_vars

\* the combined table was written after a batch that left the raw folders of both
\* awards, each with a funding table
C23_Witness ==
    /\ sLast.name = "combined"
    /\ sLast.step = "write"
    /\ sLast.res = "returned"
    /\ pc = "idle"
    /\ outcome = "returned"
    /\ Len(index) = 2
    /\ Cardinality(combined) = 2

\* the raw folder of e is whole: _download_files went through and the pending file
\* is gone
Finished(e) == folder[e] = "complete" /\ marker[e] # NoMarker /\ pending[e] = NoRec

\* C24 (every batch is download_awards(stop_on_errors = False)): a rejected request
\* raises nothing and the batch goes on, and no error ends the batch; when the batch
\* has returned with every award of the award json either downloaded whole or
\* rejected, a combined table written next holds only rows of the funding tables in
\* the raw folders of the awards that were downloaded, none of a rejected award.
C24_EndToEnd ==
    [][/\ (~stopOnErrors /\ pc = "for" /\ last'.step = "request"
             /\ ~Accepted(last'.resp) /\ last'.resp # NoResp) =>
             /\ last'.res = "notpending"
             /\ outcome' = "running"
             /\ runLog'[cur] = "rejected"
             /\ UNCHANGED disk
       /\ (~stopOnErrors /\ outcome = "running") => outcome' # "raised"
       /\ (/\ pc = "idle" /\ pc' = "idle"
           /\ outcome = "returned"
           /\ sLast'.name = "combined"
           /\ sLast'.step = "write"
           /\ \A k \in DOMAIN index :
                 runLog[index[k]] = "rejected" \/ Finished(index[k])) =>
             \A row \in combined' :
                /\ \E k \in DOMAIN index : index[k] = row[1]
                /\ Finished(row[1])
                /\ runLog[row[1]] # "rejected"
                /\ row[2] = table[row[1]]]_vars

\* download_awards(stop_on_errors = False) returned, one award rejected and one downloaded,
\* and the combined table was written with the rows of the downloaded award
C24_Witness ==
    /\ pc = "idle"
    /\ outcome = "returned"
    /\ sLast.name = "combined"
    /\ sLast.step = "write"
    /\ index = AwardIds
    /\ runLog["a1"] = "rejected"
    /\ folder["a1"] = "absent"
    /\ Finished("a2")
    /\ combined = {<<"a2", table["a2"]>>}

\* the integer part of n / d (d > 0), the fraction dropped
Truncated(n, d) == IF n < 0 THEN 0 - ((0 - n) \div d) ELSE n \div d

\* C26: a comparison line of the integer totals pa (summary) and faf (combined)
\* reports the difference pa - faf and, when pa is not zero, the integer part of
\* difference * 100 / pa as the percentage; when pa is zero the percentage is dashes.
C26_Arithmetic ==
    ret # <<>> =>
        /\ ret[1].diff = arg[1] - arg[2]
        /\ arg[1] = 0 => ret[1].diff_pct = Dashes
        /\ arg[1] # 0 =>
              ret[1].diff_pct = <<Truncated((arg[1] - arg[2]) * 100, arg[1])>>

\* the gross outlay the file has for code c and period p (0: none)
InGross(c, p) ==
    IF \E k \in DOMAIN arg : arg[k].code = c /\ arg[k].period = p
    THEN (CHOOSE r \in {arg[k] : k \in DOMAIN arg} : r.code = c /\ r.period = p).gross
    ELSE 0

\* the file has rows with a gross outlay under the unknown code and under a known code,
\* and none under the unknown code for period 12
MergeCase ==
    /\ \E p \in Periods : InGross(0, p) # 0
    /\ \E c \in Codes \ {0}, p \in Periods : InGross(c, p) # 0
    /\ InGross(0, 12) = 0

\* the rows of tbl before row k that have a gross outlay under the code of row k
EarlierRows(tbl, k) == {j \in 1..(k - 1) : tbl[j].code = tbl[k].code /\ tbl[j].gross # 0}

\* the increment of row k of tbl is its gross outlay less that of the row before it
\* in tbl under the same code, or its gross outlay when there is no such row
DiffInTable(tbl, k) ==
    IF EarlierRows(tbl, k) = {} THEN tbl[k].outlay = <<tbl[k].gross>>
    ELSE LET prev == CHOOSE j \in EarlierRows(tbl, k) : \A m \in EarlierRows(tbl, k) : m <= j
         IN tbl[k].outlay = <<tbl[k].gross - tbl[prev].gross>>

\* C27: the increment of every row that got one is its cumulative figure less the
\* cumulative figure of the preceding period (the latest earlier period, 1..12 taken
\* as numbers) of the same code, or its own cumulative figure when it is the first
\* period of the code.
C27_Increments ==
    ret # <<>> =>
        \A k \in DOMAIN ret[1] :
           LET r == ret[1][k]
               before == {j \in DOMAIN ret[1] : /\ ret[1][j].code = r.code
                                                 /\ ret[1][j].gross # 0
                                                 /\ ret[1][j].period < r.period}
           IN r.outlay # NoOutlay =>
                 IF before = {} THEN r.outlay = <<r.gross>>
                 ELSE LET prev == CHOOSE j \in before :
                                     \A m \in before : ret[1][m].period <= ret[1][j].period
                      IN r.outlay = <<r.gross - ret[1][prev].gross>>

\* C28: when the unknown code is merged (MergeCase), the known code of the first row
\* of the sorted table that has one is the target: each of its rows has the gross
\* outlay of the file plus that of the unknown code for the same period, every other
\* row has the gross outlay of the file, and the increments of the target are taken
\* from the merged figures.
C28_MergeArithmetic ==
    (ret # <<>> /\ MergeCase) =>
        LET tbl == ret[1]
            known == {k \in DOMAIN tbl : tbl[k].code > 0 /\ tbl[k].gross # 0}
            target == tbl[CHOOSE k \in known : \A m \in known : k <= m].code
        IN \A k \in DOMAIN tbl :
              IF tbl[k].code = target /\ InGross(target, tbl[k].period) # 0
              THEN /\ tbl[k].gross = InGross(target, tbl[k].period) + InGross(0, tbl[k].period)
                   /\ DiffInTable(tbl, k)
              ELSE tbl[k].gross = InGross(tbl[k].code, tbl[k].period)

\* code 0 = [5, 5] and code 3 = [20, 30] in periods 1 and 2: code 3 became [25, 35]
C28_Witness ==
    /\ ret # <<>>
    /\ Len(arg) = 4
    /\ InGross(0, 1) = 5 /\ InGross(0, 2) = 5
    /\ InGross(3, 1) = 20 /\ InGross(3, 2) = 30
    /\ \E k \in DOMAIN ret[1] :
          ret[1][k].code = 3 /\ ret[1][k].period = 1 /\ ret[1][k].gross = 25
    /\ \E k \in DOMAIN ret[1] :
          ret[1][k].code = 3 /\ ret[1][k].period = 2 /\ ret[1][k].gross = 35

\* C29 as stated: when the unknown code was merged, the table returned has no row
\* of code 0.
C29_AsStated ==
    (ret # <<>> /\ MergeCase) => \A k \in DOMAIN ret[1] : ret[1][k].code # 0

\* C29: when the unknown code was merged, the table returned has the rows of the file;
\* the rows of code 0 have no increment and the gross outlay of the file, and every
\* row of a known code that has a gross outlay has an increment.
C29_MergeOutput ==
    (ret # <<>> /\ MergeCase) =>
        /\ Len(ret[1]) = Len(arg)
        /\ \A j \in DOMAIN arg : \E k \in DOMAIN ret[1] :
              ret[1][k].code = arg[j].code /\ ret[1][k].period = arg[j].period
        /\ \A k \in DOMAIN ret[1] :
              IF ret[1][k].code = 0
              THEN /\ ret[1][k].outlay = NoOutlay
                   /\ ret[1][k].gross = InGross(0, ret[1][k].period)
              ELSE ret[1][k].gross # 0 <=> ret[1][k].outlay # NoOutlay

\* the unknown code was merged into code 4 next to code 3, and its row is in the
\* table returned, without an increment
C29_Witness ==
    /\ ret # <<>>
    /\ MergeCase
    /\ InGross(3, 2) # 0
    /\ InGross(4, 1) # 0
    /\ \E k \in DOMAIN ret[1] :
          /\ ret[1][k].code = 0
          /\ ret[1][k].gross # 0
          /\ ret[1][k].outlay = NoOutlay
    /\ \E k \in DOMAIN ret[1] :
          ret[1][k].code = 4 /\ ret[1][k].gross # InGross(4, ret[1][k].period)

C31_Lifecycle ==
    [][/\ \A e \in Entities :
            /\ (pending[e] = NoRec /\ pending'[e] # NoRec) =>
                  /\ pc = "for" /\ e = cur
                  /\ last'.step = "request"
                  /\ "status_url" \in last'.resp
                  /\ pending'[e] = last'.resp
            /\ (pending[e] # NoRec /\ pending'[e] # NoRec) => pending'[e] = pending[e]
            /\ (pending[e] # NoRec /\ pending'[e] = NoRec) =>
                  /\ pc = "poll" /\ e = cur
                  /\ \/ last'.step = "malformed"
                     \/ /\ last'.step = "poll"
                        /\ last'.status = "finished"
                        /\ last'.net = <<"poll", "fetch">>
                        /\ last'.res = "notpending"
                        /\ folder'[e] = "complete" /\ marker'[e] = now
                     \/ /\ last'.step = "poll"
                        /\ last'.status \in Statuses \ {"finished", "running", "ready"}
       /\ (\/ last'.status \in {"running", "ready"}
           \/ last'.res \in {"transient", "pending"}) => pending' = pending]_vars

\* a pending file was written, kept over a poll that reported running, and later deleted
\* after the files were fetched
C31_Witness ==
    /\ last.step = "poll"
    /\ last.status = "finished"
    /\ last.res = "notpending"
    /\ \E e \in Entities : pending[e] = NoRec /\ folder[e] = "complete"
    /\ \E e \in Entities : pending[e] # NoRec /\ runLog[e] = "pending"

\* C32: when from some point on no call of download_award_data returns pending or
\* fails transiently, a running download_awards ends, and it returns unless an
\* exception was raised again; when the chunk that starts after j0 is empty (an empty
\* award json, or one of a multiple of 10 awards) the sweep over it drives no award
\* and download_awards returns right after it.
C32_Termination ==
    /\ (<>[][last'.res \notin {"pending", "transient"}]_vars) =>
          (outcome = "running" ~> outcome # "running")
    /\ [][/\ (outcome = "running" /\ outcome' # "running" /\ last'.res = "none"
                 /\ last'.step = "none") =>
                (outcome' = "returned" /\ j0 > Len(index))
          /\ (pc = "chunks" /\ j0 = Len(index)) =>
                (pc' = "sweep" /\ newPendingList' = <<>> /\ drives' = drives)
          /\ (pc = "sweep" /\ j0 = Len(index)) =>
                (pc' = "chunks" /\ j0' > Len(index) /\ drives' = drives)
          /\ (pc = "chunks" /\ j0 > Len(index)) =>
                (outcome' = "returned" /\ drives' = drives)]_vars

\* download_awards returned from an award json of 20 awards, each driven
C32_Witness ==
    /\ outcome = "returned"
    /\ Len(index) = 2 * ChunkSize
    /\ drives = index

\* C33: a build of the award json starts from an empty mapping; the award json it
\* writes has exactly the identifiers of the rows of this build's responses, so an
\* identifier of the award json before that no response had is gone; when
\* check_overwrite says no, search_awards returns in that step: no search request,
\* and the award json, its keys and downloaded.json are as they were; a search request
\* is made only by a build that check_overwrite let start.
C33_Replaces ==
    [][/\ (spc = "idle" /\ spc' # "idle") =>
             /\ sLast'.overwrite /\ check_overwrite("awards", sLast'.crit)
             /\ out' = NoRows /\ typeOut' = NoRows
       /\ sLast'.step = "write" =>
             /\ \A e \in Entities :
                   (\E k \in DOMAIN index' : index'[k] = e) <=> latest[e] # NoRow
             /\ \A k \in DOMAIN index : latest[index[k]] = NoRow =>
                   (awardRows'[index[k]] = NoRow
                    /\ \A j \in DOMAIN index' : index'[j] # index[k])
       /\ (spc = "idle" /\ sLast'.step = "check"
             /\ ~check_overwrite("awards", sLast'.crit)) =>
             /\ spc' = "idle"
             /\ sLast'.res = "returned" /\ sLast'.req = <<>>
             /\ files' = files /\ awardRows' = awardRows /\ index' = index
             /\ timeDict' = timeDict
       /\ sLast'.step = "post" => spc = "post"]_vars

\* a build over an award json that holds a1 found a2 and not a1, and is about to write
C33_Witness ==
    /\ spc = "write"
    /\ index = <<"a1">>
    /\ awardRows["a1"] # NoRow
    /\ out["a1"] = NoRow
    /\ out["a2"] # NoRow
    /\ latest = out

C35_NoDuplicateRequest ==
    [][/\ (\E k \in DOMAIN last'.net : last'.net[k] = "request") =>
             /\ pc = "for"
             /\ pending[cur] = NoRec
             /\ last'.net = <<"request">>
       /\ (pc \in {"for", "poll"} /\ pending[cur] # NoRec) =>
             /\ last'.step \in {"skip", "resume", "poll", "malformed"}
             /\ last'.net \in {<<>>, <<"poll">>, <<"poll", "fetch">>}
       /\ (pc = "for" /\ pending[cur] # NoRec /\ ~Fresh(cur)) =>
             (pc' = "poll" \/ last'.res = "interrupt")
       /\ (last'.step = "poll" /\ last'.res = "transient") =>
             /\ pending[cur] # NoRec
             /\ pending' = pending
             /\ newPendingList' = Append(newPendingList, cur)
             /\ outcome' = "running" /\ cutoff' = cutoff
             /\ ~Fresh(cur)'
       /\ \A e \in Entities :
             (pc \notin {"for", "poll"} \/ e # cur) =>
                (folder'[e] = folder[e] /\ table'[e] = table[e] /\ pending'[e] = pending[e]
                 /\ marker'[e] = marker[e])]_vars

\* the fetch of a finished job failed transiently: the pending file is kept and the
\* award is on the list of the next sweep
C35_Witness ==
    /\ pc = "cooldown"
    /\ last.step = "poll"
    /\ last.status = "finished"
    /\ last.net = <<"poll", "fetch">>
    /\ last.res = "transient"
    /\ pending[cur] # NoRec
    /\ \E k \in DOMAIN newPendingList : newPendingList[k] = cur

\* C36: an award that the entry guard skips has a raw folder that extractall finished
\* and a downloaded.txt that _download_files wrote; in particular a run with no cutoff
\* does not skip an award whose fetch stopped before that.
C36_CompleteFetch ==
    [][last'.step = "skip" =>
          /\ folder[cur] = "complete"
          /\ marker[cur] # NoMarker]_vars

\* the awards download_awards_chunk still has on its lists: the rest of the list of
\* this sweep and the list of the next one
Tracked ==
    {pendingList[k] : k \in (i + 1)..Len(pendingList)}
        \cup {newPendingList[k] : k \in DOMAIN newPendingList}

\* C37: an award is driven only while it is among the (at most 10) awards of the award
\* json that start after j0, and so is every award still on a list of
\* download_awards_chunk; j0 moves on, by 10, only from the head of the sweep loop
\* with the list of the next sweep empty, so no award of a later chunk is driven
\* while an award of the chunk before it is on a list.
C37_Sequential ==
    [][/\ pc \in {"for", "cooldown"} =>
             /\ j0 < cur /\ cur <= j0 + ChunkSize
             /\ \A e \in Tracked : j0 < e /\ e <= j0 + ChunkSize
             /\ Cardinality(Tracked) <= ChunkSize
             /\ pc = "for" => Len(pendingList) - i + Len(newPendingList) <= ChunkSize
             /\ \A e \in 1..j0 : e \notin Tracked
       /\ (pc = "for" /\ outcome' = "running") =>
             /\ j0' = j0
             /\ \A e \in Tracked' : j0 < e /\ e <= j0 + ChunkSize
             /\ Tracked' \subseteq Tracked
       /\ (outcome = "running" /\ outcome' = "running" /\ j0' # j0) =>
             /\ pc = "sweep"
             /\ newPendingList = <<>>
             /\ j0' = j0 + ChunkSize
       /\ (pc = "chunks" /\ pc' = "sweep") =>
             \A k \in DOMAIN newPendingList' :
                j0 < newPendingList'[k] /\ newPendingList'[k] <= j0 + ChunkSize]_vars

\* the second sweep of the second chunk of an award json of 21 awards: award 11 has
\* been put back again, award 12 is being driven, and the awards of the first chunk
\* and award 21 are on no list
C37_Witness ==
    /\ pc = "for"
    /\ Len(index) = 2 * ChunkSize + 1
    /\ j0 = ChunkSize
    /\ pendingList = <<11, 12>>
    /\ newPendingList = <<11>>
    /\ i = 1
    /\ Len(drives) = 2 * ChunkSize

\* C38: with a program activity json that has entries and a combined funding table,
\* check_summaries returns without raising and writes the summary check file, whatever
\* the years the json has entries for and whichever of them are empty.
C38_Robust ==
    ret # <<>> =>
        /\ ret[1].res = "returned"
        /\ "summary_check" \in files

====
